---- MODULE Spec2Model ----
(***************************************************************************)
(* goreflector: a single-target HTTP reverse proxy (proxy.go, main.go).    *)
(* The model follows one Proxy value through the requests it serves.       *)
(* Strings are sequences of one-character strings, so that the letter-case *)
(* folding of header names, the splitting of X-Forwarded-For and the       *)
(* port-stripping of the peer address are computed, not assumed.           *)
(***************************************************************************)
EXTENDS Integers, Sequences, FiniteSets, TLC

(***************************************************************************)
(* Bounds of the model.                                                    *)
(***************************************************************************)
\* largest number of names in one inbound header map
MaxInNames == 2
\* largest number of configured custom overrides
MaxOverrides == 2
\* largest number of bytes of a backend body
MaxBody == 2

(***************************************************************************)
(* Characters and strings.                                                 *)
(***************************************************************************)
LowerLetters == <<"a","b","c","d","e","f","g","h","i","j","k","l","m",
                  "n","o","p","q","r","s","t","u","v","w","x","y","z">>
UpperLetters == <<"A","B","C","D","E","F","G","H","I","J","K","L","M",
                  "N","O","P","Q","R","S","T","U","V","W","X","Y","Z">>
Digits == {"0","1","2","3","4","5","6","7","8","9"}

Range(s) == {s[i] : i \in DOMAIN s}

UpperOf == [c \in Range(LowerLetters) |-> UpperLetters[CHOOSE i \in 1..26 : LowerLetters[i] = c]]
LowerOf == [c \in Range(UpperLetters) |-> LowerLetters[CHOOSE i \in 1..26 : UpperLetters[i] = c]]
ToUpper(c) == IF c \in DOMAIN UpperOf THEN UpperOf[c] ELSE c
ToLower(c) == IF c \in DOMAIN LowerOf THEN LowerOf[c] ELSE c

\* the bytes Go accepts in a header field name or a method: the RFC 7230
\* token bytes (the backquote, which no input of the model uses, is left out)
TokenChars == Range(LowerLetters) \cup Range(UpperLetters) \cup Digits
              \cup {"!","#","$","%","&","'","*","+","-",".","^","_","|","~"}
\* ASCII control bytes that occur in the inputs of the model
CtlChars == {"\n", "\t", "\r"}
SpaceChars == {" ", "\t", "\n", "\r"}

\* strings.TrimSpace
RECURSIVE TrimLeft(_)
TrimLeft(s) == IF s # <<>> /\ Head(s) \in SpaceChars THEN TrimLeft(Tail(s)) ELSE s
RECURSIVE TrimRight(_)
TrimRight(s) == IF s # <<>> /\ s[Len(s)] \in SpaceChars
                THEN TrimRight(SubSeq(s, 1, Len(s) - 1)) ELSE s
TrimSpace(s) == TrimRight(TrimLeft(s))

\* strings.Split(s, ",")[0]: the text before the first comma (all of s without one)
FirstField(s) ==
    IF \E i \in DOMAIN s : s[i] = ","
    THEN SubSeq(s, 1, (CHOOSE i \in DOMAIN s : s[i] = "," /\ \A j \in 1..(i-1) : s[j] # ",") - 1)
    ELSE s

\* mutant: the trailing slash kept
TrimSuffixNone(s) == s

\* strings.TrimSuffix(s, "/")
TrimSuffixSlash(s) == IF s # <<>> /\ s[Len(s)] = "/" THEN SubSeq(s, 1, Len(s) - 1) ELSE s

(***************************************************************************)
(* String literals of proxy.go.                                            *)
(***************************************************************************)
sHost == <<"H","o","s","t">>
sConnection == <<"C","o","n","n","e","c","t","i","o","n">>
sKeepAlive == <<"K","e","e","p","-","A","l","i","v","e">>
sProxyAuthenticate == <<"P","r","o","x","y","-","A","u","t","h","e","n","t","i","c","a","t","e">>
sProxyAuthorization == <<"P","r","o","x","y","-","A","u","t","h","o","r","i","z","a","t","i","o","n">>
sTe == <<"T","e">>
sTrailers == <<"T","r","a","i","l","e","r","s">>
sTransferEncoding == <<"T","r","a","n","s","f","e","r","-","E","n","c","o","d","i","n","g">>
sUpgrade == <<"U","p","g","r","a","d","e">>
sXForwardedFor == <<"X","-","F","o","r","w","a","r","d","e","d","-","F","o","r">>
sXForwardedHost == <<"X","-","F","o","r","w","a","r","d","e","d","-","H","o","s","t">>
sXForwardedProto == <<"X","-","F","o","r","w","a","r","d","e","d","-","P","r","o","t","o">>
sXRealIP == <<"X","-","R","e","a","l","-","I","P">>
sHttp == <<"h","t","t","p">>
sHttps == <<"h","t","t","p","s">>
sCommaSpace == <<",", " ">>
\* header names of http.Error and of the responses and requests of the model
sContentLength == <<"C","o","n","t","e","n","t","-","L","e","n","g","t","h">>
sContentType == <<"C","o","n","t","e","n","t","-","T","y","p","e">>
sXContentTypeOptions == <<"X","-","C","o","n","t","e","n","t","-","T","y","p","e","-",
                          "O","p","t","i","o","n","s">>
nVia == <<"V","i","a">>
nViaLower == <<"v","i","a">>
nTeLower == <<"t","e">>
nXffLower == <<"x","-","f","o","r","w","a","r","d","e","d","-","f","o","r">>
nXRealIp == <<"X","-","R","e","a","l","-","I","p">>
nHostLower == <<"h","o","s","t">>
sSetCookie == <<"S","e","t","-","C","o","o","k","i","e">>
sLocation == <<"L","o","c","a","t","i","o","n">>

\* textproto.CanonicalMIMEHeaderKey: first letter and every letter after a
\* hyphen upper-cased, the others lower-cased; a name holding a byte that is
\* not a token byte is returned unchanged
CanonicalMIMEHeaderKey(s) ==
    IF \E i \in DOMAIN s : s[i] \notin TokenChars
    THEN s
    ELSE [i \in DOMAIN s |-> IF i = 1 \/ s[i-1] = "-" THEN ToUpper(s[i]) ELSE ToLower(s[i])]

\* the canonical forms of the header names that occur, computed once
HeaderNames ==
    {sHost, sConnection, sKeepAlive, sProxyAuthenticate,
     sProxyAuthorization, sTe, sTrailers, sTransferEncoding,
     sUpgrade, sXForwardedFor, sXForwardedHost, sXForwardedProto,
     sXRealIP, sContentLength, sContentType, sXContentTypeOptions,
     nVia, nViaLower, nTeLower, nXffLower,
     nXRealIp, nHostLower, sSetCookie, sLocation}
CanonicalOf == [s \in HeaderNames |-> CanonicalMIMEHeaderKey(s)]

\* http.CanonicalHeaderKey
CanonicalHeaderKey(s) ==
    IF s \in HeaderNames THEN CanonicalOf[s] ELSE CanonicalMIMEHeaderKey(s)

(***************************************************************************)
(* http.Header: a map from stored key to a list of values.                 *)
(***************************************************************************)
EmptyHeader == <<>>

\* Header.Add(key, value)
HeaderAdd(h, key, value) ==
    LET k == CanonicalHeaderKey(key)
    IN IF k \in DOMAIN h THEN [h EXCEPT ![k] = Append(@, value)]
       ELSE (k :> <<value>>) @@ h

\* Header.Set(key, value)
HeaderSet(h, key, value) == (CanonicalHeaderKey(key) :> <<value>>) @@ h

\* Header.Get(key): the first value under the canonical key, "" without one
HeaderGet(h, key) ==
    LET k == CanonicalHeaderKey(key)
    IN IF k \in DOMAIN h /\ h[k] # <<>> THEN h[k][1] ELSE <<>>

\* Header.Values(key)
HeaderValues(h, key) ==
    LET k == CanonicalHeaderKey(key)
    IN IF k \in DOMAIN h THEN h[k] ELSE <<>>

\* the permutations of a finite set: the orders in which Go may range over a map
Orders(S) == {f \in [1..Cardinality(S) -> S] : \A i, j \in 1..Cardinality(S) : f[i] = f[j] => i = j}

(***************************************************************************)
(* shouldSkipHeader, getClientIP, buildTargetURL.                          *)
(***************************************************************************)
skipHeaders == {sConnection, sKeepAlive, sProxyAuthenticate, sProxyAuthorization,
                sTe, sTrailers, sTransferEncoding, sUpgrade}

\* mutant: the lookup without CanonicalHeaderKey
shouldSkipHeaderExact(header) == header \in skipHeaders

shouldSkipHeader(header) == CanonicalHeaderKey(header) \in skipHeaders

\* net.SplitHostPort: [err, host]; the port is what follows the last colon, an
\* IPv6 host stands in brackets, and an address without a port, or with colons
\* in an unbracketed host, is an error
SplitHostPort(addr) ==
    IF ~ \E i \in DOMAIN addr : addr[i] = ":"
    THEN [err |-> TRUE, host |-> <<>>]
    ELSE LET last == CHOOSE i \in DOMAIN addr :
                        addr[i] = ":" /\ \A j \in (i+1)..Len(addr) : addr[j] # ":"
         IN IF addr[1] = "["
            THEN IF last > 2 /\ addr[last - 1] = "]"
                    /\ \A j \in 2..(last - 2) : addr[j] \notin {"[", "]"}
                 THEN [err |-> FALSE, host |-> SubSeq(addr, 2, last - 2)]
                 ELSE [err |-> TRUE, host |-> <<>>]
            ELSE IF \E j \in 1..(last - 1) : addr[j] \in {":", "[", "]"}
                 THEN [err |-> TRUE, host |-> <<>>]
                 ELSE [err |-> FALSE, host |-> SubSeq(addr, 1, last - 1)]

\* mutant: X-Real-IP consulted before X-Forwarded-For
getClientIPRealIPFirst(req) ==
    LET xff == HeaderGet(req.Header, sXForwardedFor)
        realIP == HeaderGet(req.Header, sXRealIP)
        hp == SplitHostPort(req.RemoteAddr)
    IN IF realIP # <<>> THEN realIP
       ELSE IF xff # <<>> THEN TrimSpace(FirstField(xff))
       ELSE IF hp.err THEN req.RemoteAddr
       ELSE hp.host

getClientIP(req) ==
    LET xff == HeaderGet(req.Header, sXForwardedFor)
        realIP == HeaderGet(req.Header, sXRealIP)
        hp == SplitHostPort(req.RemoteAddr)
    IN IF xff # <<>> THEN TrimSpace(FirstField(xff))
       ELSE IF realIP # <<>> THEN realIP
       ELSE IF hp.err THEN req.RemoteAddr
       ELSE hp.host

buildTargetURL(cfg, req) ==
    [Scheme   |-> cfg.TargetURL.Scheme,
     Host     |-> cfg.TargetURL.Host,
     Path     |-> IF cfg.TargetURL.Path # <<>> /\ cfg.TargetURL.Path # <<"/">>
                  THEN TrimSuffixSlash(cfg.TargetURL.Path) \o req.URL.Path
                  ELSE req.URL.Path,
     RawQuery |-> req.URL.RawQuery]

(***************************************************************************)
(* copyHeaders and addForwardedHeaders.  A Go map is ranged over in an     *)
(* unspecified order: srcOrder and customOrder are the orders of one run.  *)
(***************************************************************************)
\* mutant: Set in place of Add, so that the last value alone is left
RECURSIVE AddValuesLast(_, _, _)
AddValuesLast(h, key, values) ==
    IF values = <<>> THEN h
    ELSE AddValuesLast(HeaderSet(h, key, Head(values)), key, Tail(values))

\* proxy.go 129-131: every value of one inbound key, in order
RECURSIVE AddValues(_, _, _)
AddValues(h, key, values) ==
    IF values = <<>> THEN h
    ELSE AddValues(HeaderAdd(h, key, Head(values)), key, Tail(values))

\* proxy.go 125-132
RECURSIVE CopyInbound(_, _, _)
CopyInbound(h, srcHeader, order) ==
    IF order = <<>> THEN h
    ELSE LET key == Head(order)
         IN CopyInbound(IF shouldSkipHeader(key) THEN h
                        ELSE AddValues(h, key, srcHeader[key]),
                        srcHeader, Tail(order))

\* mutant: Add in place of Set, so that an override is appended
RECURSIVE ApplyCustomAdd(_, _, _)
ApplyCustomAdd(dst, custom, order) ==
    IF order = <<>> THEN dst
    ELSE LET name == Head(order)
         IN ApplyCustomAdd(IF CanonicalHeaderKey(name) = sHost
                           THEN [dst EXCEPT !.Host = custom[name]]
                           ELSE [dst EXCEPT !.Header = HeaderAdd(@, name, custom[name])],
                           custom, Tail(order))

\* mutant: the override name compared to "Host" as spelled
RECURSIVE ApplyCustomExactHost(_, _, _)
ApplyCustomExactHost(dst, custom, order) ==
    IF order = <<>> THEN dst
    ELSE LET name == Head(order)
         IN ApplyCustomExactHost(IF name = sHost
                                 THEN [dst EXCEPT !.Host = custom[name]]
                                 ELSE [dst EXCEPT !.Header = HeaderSet(@, name, custom[name])],
                                 custom, Tail(order))

\* proxy.go 138-145
RECURSIVE ApplyCustom(_, _, _)
ApplyCustom(dst, custom, order) ==
    IF order = <<>> THEN dst
    ELSE LET name == Head(order)
         IN ApplyCustom(IF CanonicalHeaderKey(name) = sHost
                        THEN [dst EXCEPT !.Host = custom[name]]
                        ELSE [dst EXCEPT !.Header = HeaderSet(@, name, custom[name])],
                        custom, Tail(order))

\* proxy.go 123-146: the requests copyHeaders may leave, one for each order in
\* which the two maps are ranged over
copyHeaders(cfg, src, dst) ==
    LET copies == {CopyInbound(dst.Header, src.Header, srcOrder)
                      : srcOrder \in Orders(DOMAIN src.Header)}
        hosted == {[dst EXCEPT !.Header = c, !.Host = cfg.TargetURL.Host] : c \in copies}
    IN {ApplyCustom(d, cfg.CustomHeaders, customOrder)
           : d \in hosted, customOrder \in Orders(DOMAIN cfg.CustomHeaders)}

\* mutant: an X-Forwarded-Proto already on the request is kept
addForwardedHeadersKeepProto(src, dst) ==
    LET clientIP == getClientIP(src)
        prior == HeaderGet(dst.Header, sXForwardedFor)
        h1 == IF clientIP # <<>>
              THEN HeaderSet(dst.Header, sXForwardedFor,
                             IF prior # <<>> THEN prior \o sCommaSpace \o clientIP
                             ELSE clientIP)
              ELSE dst.Header
        h2 == IF src.Host # <<>> THEN HeaderSet(h1, sXForwardedHost, src.Host) ELSE h1
        scheme == IF src.TLS THEN sHttps ELSE sHttp
    IN [dst EXCEPT !.Header = IF sXForwardedProto \in DOMAIN h2 THEN h2
                              ELSE HeaderSet(h2, sXForwardedProto, scheme)]

\* mutant: X-Forwarded-Host set whatever the inbound Host
addForwardedHeadersAlwaysHost(src, dst) ==
    LET clientIP == getClientIP(src)
        prior == HeaderGet(dst.Header, sXForwardedFor)
        h1 == IF clientIP # <<>>
              THEN HeaderSet(dst.Header, sXForwardedFor,
                             IF prior # <<>> THEN prior \o sCommaSpace \o clientIP
                             ELSE clientIP)
              ELSE dst.Header
        h2 == HeaderSet(h1, sXForwardedHost, src.Host)
        scheme == IF src.TLS THEN sHttps ELSE sHttp
    IN [dst EXCEPT !.Header = HeaderSet(h2, sXForwardedProto, scheme)]

\* mutant: the client IP added as one more value, in place of joined and set
addForwardedHeadersAddIP(src, dst) ==
    LET clientIP == getClientIP(src)
        h1 == IF clientIP # <<>> THEN HeaderAdd(dst.Header, sXForwardedFor, clientIP)
              ELSE dst.Header
        h2 == IF src.Host # <<>> THEN HeaderSet(h1, sXForwardedHost, src.Host) ELSE h1
        scheme == IF src.TLS THEN sHttps ELSE sHttp
    IN [dst EXCEPT !.Header = HeaderSet(h2, sXForwardedProto, scheme)]

\* mutant: X-Forwarded-For removed when there is no client IP
addForwardedHeadersDropOnEmpty(src, dst) ==
    LET clientIP == getClientIP(src)
        prior == HeaderGet(dst.Header, sXForwardedFor)
        h1 == IF clientIP # <<>>
              THEN HeaderSet(dst.Header, sXForwardedFor,
                             IF prior # <<>> THEN prior \o sCommaSpace \o clientIP
                             ELSE clientIP)
              ELSE [k \in DOMAIN dst.Header \ {sXForwardedFor} |-> dst.Header[k]]
        h2 == IF src.Host # <<>> THEN HeaderSet(h1, sXForwardedHost, src.Host) ELSE h1
        scheme == IF src.TLS THEN sHttps ELSE sHttp
    IN [dst EXCEPT !.Header = HeaderSet(h2, sXForwardedProto, scheme)]

addForwardedHeaders(src, dst) ==
    LET clientIP == getClientIP(src)
        prior == HeaderGet(dst.Header, sXForwardedFor)
        h1 == IF clientIP # <<>>
              THEN HeaderSet(dst.Header, sXForwardedFor,
                             IF prior # <<>> THEN prior \o sCommaSpace \o clientIP
                             ELSE clientIP)
              ELSE dst.Header
        h2 == IF src.Host # <<>> THEN HeaderSet(h1, sXForwardedHost, src.Host) ELSE h1
        scheme == IF src.TLS THEN sHttps ELSE sHttp
    IN [dst EXCEPT !.Header = HeaderSet(h2, sXForwardedProto, scheme)]

(***************************************************************************)
(* NewProxy and the pieces of net/http that ServeHTTP calls.               *)
(***************************************************************************)
\* a nil pointer
Nil == [nil |-> TRUE]
\* 30 * time.Second, in seconds
DefaultTimeout == 30

\* mutant: no CheckRedirect, so that the client follows redirects
CheckRedirectFollow == FALSE

\* CheckRedirect of the client NewProxy builds: TRUE stands for returning
\* http.ErrUseLastResponse, which makes Do hand back a 3xx response as it is
CheckRedirectUseLast == TRUE

\* log.Default()
DefaultLogger == [out |-> "stderr"]

\* mutant: the client built without the configured timeout
NewProxyNoTimeout(cfg, logger) ==
    IF cfg.TargetURL = Nil THEN [err |-> TRUE, proxy |-> Nil]
    ELSE IF cfg.ListenAddr = <<>> THEN [err |-> TRUE, proxy |-> Nil]
    ELSE LET c == [cfg EXCEPT !.Timeout = IF @ = 0 THEN DefaultTimeout ELSE @]
         IN [err |-> FALSE,
             proxy |-> [config |-> c,
                        httpClient |-> [Timeout |-> 0,
                                        UseLastResponse |-> CheckRedirectUseLast],
                        logger |-> IF logger = Nil THEN DefaultLogger ELSE logger]]

\* mutant: a zero timeout kept
NewProxyKeepZero(cfg, logger) ==
    IF cfg.TargetURL = Nil THEN [err |-> TRUE, proxy |-> Nil]
    ELSE IF cfg.ListenAddr = <<>> THEN [err |-> TRUE, proxy |-> Nil]
    ELSE [err |-> FALSE,
          proxy |-> [config |-> cfg,
                     httpClient |-> [Timeout |-> cfg.Timeout,
                                     UseLastResponse |-> CheckRedirectUseLast],
                     logger |-> IF logger = Nil THEN DefaultLogger ELSE logger]]

NewProxy(cfg, logger) ==
    IF cfg.TargetURL = Nil THEN [err |-> TRUE, proxy |-> Nil]
    ELSE IF cfg.ListenAddr = <<>> THEN [err |-> TRUE, proxy |-> Nil]
    ELSE LET c == [cfg EXCEPT !.Timeout = IF @ = 0 THEN DefaultTimeout ELSE @]
         IN [err |-> FALSE,
             proxy |-> [config |-> c,
                        httpClient |-> [Timeout |-> c.Timeout,
                                        UseLastResponse |-> CheckRedirectUseLast],
                        logger |-> IF logger = Nil THEN DefaultLogger ELSE logger]]

(***************************************************************************)
(* Percent-encoding in net/url.  The listener parses the request target     *)
(* into URL.Path (decoded) and URL.RawPath (the bytes received, kept only   *)
(* when they are not the default encoding of Path); a request is written    *)
(* to the backend with URL.EscapedPath().                                   *)
(***************************************************************************)
\* the bytes that occur behind a "%" in the model, with their hexadecimal codes
HexOf == (" " :> <<"2","0">>) @@ ("%" :> <<"2","5">>) @@ ("/" :> <<"2","F">>)
         @@ ("?" :> <<"3","F">>) @@ ("A" :> <<"4","1">>) @@ ("a" :> <<"6","1">>)
         @@ ("\n" :> <<"0","A">>) @@ ("\t" :> <<"0","9">>) @@ ("\r" :> <<"0","D">>)
HexPair(s) == <<ToUpper(s[2]), ToUpper(s[3])>>

\* net/url unescape in path mode: %XY becomes the byte it encodes
RECURSIVE unescape(_)
unescape(s) ==
    IF s = <<>> THEN <<>>
    ELSE IF s[1] = "%"
    THEN <<CHOOSE c \in DOMAIN HexOf : HexOf[c] = HexPair(s)>>
         \o unescape(SubSeq(s, 4, Len(s)))
    ELSE <<s[1]>> \o unescape(Tail(s))

\* net/url shouldEscape in path mode: letters, digits, "-", "_", ".", "~" and
\* the reserved bytes other than "?" are written as they are
PathBytes == Range(LowerLetters) \cup Range(UpperLetters) \cup Digits
             \cup {"-", "_", ".", "~", "$", "&", "+", ",", "/", ":", ";", "=", "@"}
\* net/url escape in path mode
RECURSIVE escape(_)
escape(s) ==
    IF s = <<>> THEN <<>>
    ELSE IF s[1] \in PathBytes THEN <<s[1]>> \o escape(Tail(s))
    ELSE <<"%">> \o HexOf[s[1]] \o escape(Tail(s))

\* URL.EscapedPath: RawPath when it is an encoding of Path, and the default
\* encoding of Path otherwise
EscapedPath(u) ==
    IF u.RawPath # <<>> /\ unescape(u.RawPath) = u.Path THEN u.RawPath
    ELSE escape(u.Path)

\* the URL the listener hands to ServeHTTP for a request target (url.ParseRequestURI)
ParseRequestURI(target) ==
    LET marks == {i \in DOMAIN target : target[i] = "?"}
        qm == IF marks = {} THEN Len(target) + 1
              ELSE CHOOSE i \in marks : \A j \in marks : i <= j
        raw == SubSeq(target, 1, qm - 1)
        path == unescape(raw)
    IN [Path |-> path,
        RawPath |-> IF escape(path) = raw THEN <<>> ELSE raw,
        RawQuery |-> SubSeq(target, qm + 1, Len(target))]

\* http.NewRequest refuses a method that is not a token and a URL string
\* holding a control byte; an empty method stands for GET
validMethod(m) == m # <<>> /\ \A i \in DOMAIN m : m[i] \in TokenChars
sGET == <<"G","E","T">>
NewRequestErr(method, url) ==
    \/ (method # <<>> /\ ~validMethod(method))
    \/ \E i \in DOMAIN url.RawQuery : url.RawQuery[i] \in CtlChars
    \/ \E i \in DOMAIN url.Host : url.Host[i] \in CtlChars
\* mutant: the outbound request built without the inbound body
NewRequestNoBody(method, url, body) ==
    [Method |-> IF method = <<>> THEN sGET ELSE method,
     URL    |-> url,
     Header |-> EmptyHeader,
     Host   |-> url.Host,
     Body   |-> <<>>]

\* the URL arrives as url.String(), which writes the path in its default
\* encoding, and is parsed again
NewRequest(method, url, body) ==
    [Method |-> IF method = <<>> THEN sGET ELSE method,
     URL    |-> [url EXCEPT !.Path = unescape(escape(@))],
     Header |-> EmptyHeader,
     Host   |-> url.Host,
     Body   |-> body]

\* the ResponseWriter of one request: the header map the handler fills, the
\* status and header block that WriteHeader commits, the body written so far
NewWriter == [Header |-> EmptyHeader, Status |-> 0, Sent |-> EmptyHeader,
              Body |-> <<>>, WriteHeaderCalls |-> 0]

\* ResponseWriter.WriteHeader: the first call commits status and headers
WriteHeader(w, code) ==
    IF w.Status = 0
    THEN [w EXCEPT !.Status = code, !.Sent = w.Header, !.WriteHeaderCalls = @ + 1]
    ELSE [w EXCEPT !.WriteHeaderCalls = @ + 1]

\* http.Error(w, msg, code)
httpError(w, msg, code) ==
    LET h0 == [k \in DOMAIN w.Header \ {sContentLength} |-> w.Header[k]]
        h1 == HeaderSet(HeaderSet(h0, sContentType, <<"text/plain; charset=utf-8">>),
                        sXContentTypeOptions, <<"nosniff">>)
        w1 == WriteHeader([w EXCEPT !.Header = h1], code)
    IN [w1 EXCEPT !.Body = Append(@, msg)]

StatusInternalServerError == 500
StatusBadGateway == 502

\* mutant: the hop-by-hop filter of the request side applied to the response
RECURSIVE CopyResponseHeaderFiltered(_, _, _)
CopyResponseHeaderFiltered(h, respHeader, order) ==
    IF order = <<>> THEN h
    ELSE CopyResponseHeaderFiltered(
             IF shouldSkipHeader(Head(order)) THEN h
             ELSE AddValues(h, Head(order), respHeader[Head(order)]),
             respHeader, Tail(order))

\* proxy.go 95-99: the backend's headers added to the caller's header map
RECURSIVE CopyResponseHeader(_, _, _)
CopyResponseHeader(h, respHeader, order) ==
    IF order = <<>> THEN h
    ELSE CopyResponseHeader(AddValues(h, Head(order), respHeader[Head(order)]),
                            respHeader, Tail(order))

(***************************************************************************)
(* The inputs of the model: configurations, inbound requests, backend      *)
(* responses.  Each family varies one aspect of a base value over a small  *)
(* pool; header maps and override sets are all maps of bounded size over   *)
(* their pools.                                                            *)
(***************************************************************************)
\* all maps with at most n keys of Pool, key k taking a value of Vals[k]
MapsOver(Pool, Vals, n) ==
    UNION { {f \in [D -> UNION {Vals[k] : k \in D}] : \A k \in D : f[k] \in Vals[k]}
            : D \in {X \in SUBSET Pool : Cardinality(X) <= n} }

\* inbound header names: canonical and not, hop-by-hop and not
InNames == {nVia, nViaLower, nTeLower, sUpgrade, sXForwardedFor, nXffLower,
            nXRealIp, sXForwardedHost, sXForwardedProto}

vA == <<"a">>
vB == <<"b">>
vIP1 == <<"1">>
vIP7 == <<"7">>
vChain == <<" ","1"," ",",","2">>
\* a chain whose first field is blank
vBlankFirst == <<",","2">>
InValues ==
    [k \in InNames |->
        IF k = sXForwardedFor
        THEN { <<vIP1>>, <<vChain, vIP7>>, << <<>> >>, <<vBlankFirst>> }
        ELSE IF k = nXffLower THEN { <<vIP1>> }
        ELSE IF k = nXRealIp THEN { <<vIP7>> }
        ELSE IF k \in {nVia, sUpgrade} THEN { <<vA>>, <<vB, vA>> }
        ELSE { <<vA>> }]
InHeaders == MapsOver(InNames, InValues, MaxInNames)

\* custom overrides: Host in two spellings, a hop-by-hop name, the forwarded
\* names, an ordinary name in two spellings
OverrideNames == {sHost, nHostLower, nVia, nViaLower, sTe, sXForwardedFor,
                  sXForwardedHost, sXForwardedProto}
vO == <<"o">>
vQ == <<"q">>
OverrideValues ==
    [k \in OverrideNames |->
        IF k \in {nHostLower, nViaLower} THEN {vQ} ELSE {vO}]
CustomSets == MapsOver(OverrideNames, OverrideValues, MaxOverrides)

sTarget == <<"t">>
BaseURL == [Scheme |-> sHttp, Host |-> sTarget, Path |-> <<>>]
sListen == <<":","8">>
BaseConfig == [ListenAddr |-> sListen, TargetURL |-> BaseURL, Timeout |-> 5,
               CustomHeaders |-> EmptyHeader]
ConfigInputs ==
    {[BaseConfig EXCEPT !.CustomHeaders = c] : c \in CustomSets}
    \cup {[BaseConfig EXCEPT !.TargetURL = [BaseURL EXCEPT !.Path = q, !.Scheme = sc]]
            : q \in {<<"/">>, <<"/","p">>, <<"/","p","/">>, <<"/","p","/","/">>},
              sc \in {sHttp, sHttps}}
    \cup {[BaseConfig EXCEPT !.Timeout = t] : t \in {0, 1, -1}}
    \cup {[BaseConfig EXCEPT !.TargetURL = Nil], [BaseConfig EXCEPT !.ListenAddr = <<>>],
          [BaseConfig EXCEPT !.TargetURL = Nil, !.ListenAddr = <<>>]}

sClientHost == <<"c">>
sPeer == <<"9",":","1">>
BaseRequest ==
    [Method |-> sGET, URL |-> [Path |-> <<"/","x">>, RawPath |-> <<>>, RawQuery |-> <<>>],
     Header |-> EmptyHeader, Host |-> sClientHost, RemoteAddr |-> sPeer,
     TLS |-> FALSE, Body |-> <<>>, BodyErr |-> FALSE]
PeerAddrs == {sPeer, <<"9">>, <<>>, <<"[",":",":","1","]",":","1">>}
HeaderRequests == {[BaseRequest EXCEPT !.Header = h] : h \in InHeaders}
PeerRequests ==
    {[BaseRequest EXCEPT !.Header = h, !.Host = ho, !.RemoteAddr = a]
        : h \in MapsOver({sXForwardedFor, nXffLower, nXRealIp, sXForwardedHost},
                         InValues, 1),
          ho \in {<<>>, sClientHost}, a \in PeerAddrs}
    \cup {[BaseRequest EXCEPT !.Header = h, !.TLS = TRUE]
            : h \in MapsOver({sXForwardedProto}, InValues, 1)}
Methods == {sGET, <<"P","O","S","T">>, <<"g","e","t">>, <<>>, <<"\n">>, <<"G"," ","T">>}
\* request targets as they arrive on the connection: an encoded "/", in both
\* spellings of the hexadecimal digits, an encoded letter, an encoded space,
\* and a query with two parameters
WireTargets ==
    {<<"/","a","%","2","F","a">>, <<"/","a","%","2","f","a">>, <<"/","%","4","1">>,
     <<"/","a","%","2","0","a">>, <<"/","a","?","b","=","2","&","a","=","1">>}
LifecycleRequests ==
    {[BaseRequest EXCEPT !.Method = m] : m \in Methods}
    \cup {[BaseRequest EXCEPT !.URL = ParseRequestURI(t)] : t \in WireTargets}
    \cup {[BaseRequest EXCEPT !.URL = [Path |-> q, RawPath |-> <<>>, RawQuery |-> rq]]
            : q \in {<<>>, <<"/">>, <<"/","x">>}, rq \in {<<>>, <<"a","=","1">>, <<"\n">>}}
    \cup {[BaseRequest EXCEPT !.Method = <<"P","O","S","T">>, !.Body = b, !.BodyErr = e]
            : b \in {<<>>, <<"a","b">>}, e \in BOOLEAN}
Requests == HeaderRequests \cup PeerRequests \cup LifecycleRequests

\* backend responses; header keys are canonical, as the client's parser stores them
BodyBytes == {"a", "b"}
Bodies == UNION {[1..n -> BodyBytes] : n \in 0..MaxBody}
RespHeaders == {EmptyHeader,
                sSetCookie :> <<vA, vB>>,
                (sSetCookie :> <<vB, vA>>) @@ (sConnection :> <<vA>>),
                (sLocation :> << <<"/","t">> >>) @@ (sContentType :> <<vA>>)}
BaseResponse == [StatusCode |-> 200, Header |-> EmptyHeader, Body |-> <<"a">>]
Responses ==
    {[BaseResponse EXCEPT !.StatusCode = c] : c \in {200, 201, 204, 404, 500, 502}}
    \cup {[BaseResponse EXCEPT !.StatusCode = c, !.Header = h]
            : c \in {200, 302}, h \in RespHeaders}
    \cup {[BaseResponse EXCEPT !.Body = b] : b \in Bodies}
\* the backend of the model: it answers the base request with any response of
\* the family and a request that varies method, URL or body with the base
\* response; an exchange for a request that varies the headers or the peer
\* ends in a transport failure or a timeout
ResponsesFor(req) ==
    IF req = BaseRequest THEN Responses
    ELSE IF req \in LifecycleRequests THEN {BaseResponse}
    ELSE {}

(***************************************************************************)
(* State.                                                                  *)
(***************************************************************************)
VARIABLES
    p,          \* the Proxy NewProxy returned: config, httpClient, logger
    pc,         \* where ServeHTTP stands for the request in hand
    r,          \* the inbound request
    proxyReq,   \* the outbound request
    resp,       \* the response Do returned
    w,          \* the caller's ResponseWriter
    copied,     \* bytes of resp.Body that io.Copy has moved
    closed,     \* resp.Body.Close() has run
    logs,       \* what p.logger printed for this request
    backend,    \* the requests the backend has been sent for this request
    timedOut,   \* the client's Timeout has elapsed for this request
    other,      \* the request of a second goroutine of the listener, parked
    boot        \* main: its position, its options, what it wrote, its exit

vars == <<p, pc, r, proxyReq, resp, w, copied, closed, logs, backend, timedOut,
          other, boot>>

Loggers == {Nil, [out |-> "discard"]}

\* a goroutine of the listener that has no request in hand
IdleSlot ==
    [pc |-> "idle", r |-> Nil, proxyReq |-> Nil, resp |-> Nil, w |-> NewWriter,
     copied |-> 0, closed |-> FALSE, logs |-> <<>>, backend |-> <<>>,
     timedOut |-> FALSE]

Init ==
    /\ p \in {NewProxy(c, Nil).proxy : c \in {x \in ConfigInputs : ~NewProxy(x, Nil).err}}
            \cup {NewProxy(BaseConfig, l).proxy : l \in Loggers}
    /\ pc = "idle"
    /\ r = Nil
    /\ proxyReq = Nil
    /\ resp = Nil
    /\ w = NewWriter
    /\ copied = 0
    /\ closed = FALSE
    /\ logs = <<>>
    /\ backend = <<>>
    /\ timedOut = FALSE
    /\ other = IdleSlot
    /\ boot = Nil

\* the listener hands ServeHTTP a request and a fresh ResponseWriter
Receive(req) ==
    /\ pc = "idle"
    /\ pc' = "received"
    /\ r' = req
    /\ UNCHANGED <<p, other, boot, proxyReq, resp, w, copied, closed, logs, backend, timedOut>>

\* ServeHTTP has returned; the request, its writer and its response are dropped
Return ==
    /\ pc = "done"
    /\ pc' = "idle"
    /\ r' = Nil
    /\ proxyReq' = Nil
    /\ resp' = Nil
    /\ w' = NewWriter
    /\ copied' = 0
    /\ closed' = FALSE
    /\ logs' = <<>>
    /\ backend' = <<>>
    /\ timedOut' = FALSE
    /\ UNCHANGED <<p, other, boot>>

\* mutant: the error of http.NewRequest ignored
BuildRequestUnchecked ==
    /\ pc = "received"
    /\ proxyReq' = NewRequest(r.Method, buildTargetURL(p.config, r), r.Body)
    /\ pc' = "built"
    /\ UNCHANGED <<p, other, boot, r, resp, w, copied, closed, logs, backend, timedOut>>

\* proxy.go 73-80
BuildRequest ==
    /\ pc = "received"
    /\ LET targetURL == buildTargetURL(p.config, r)
       IN IF NewRequestErr(r.Method, targetURL)
          THEN /\ logs' = Append(logs, <<"Error creating proxy request", "invalid request">>)
               /\ w' = httpError(w, "Failed to create proxy request", StatusInternalServerError)
               /\ pc' = "done"
               /\ UNCHANGED proxyReq
          ELSE /\ proxyReq' = NewRequest(r.Method, targetURL, r.Body)
               /\ pc' = "built"
               /\ UNCHANGED <<logs, w>>
    /\ UNCHANGED <<p, other, boot, r, resp, copied, closed, backend, timedOut>>

\* mutant: the outbound request given the header map of the inbound request,
\* so that what is set on the one is set on the other
BuildHeadersInPlace ==
    /\ pc = "built"
    /\ proxyReq' \in {addForwardedHeaders(r, d) : d \in copyHeaders(p.config, r, proxyReq)}
    /\ r' = [r EXCEPT !.Header = proxyReq'.Header]
    /\ logs' = Append(logs, <<"request line", "">>)
    /\ pc' = "ready"
    /\ UNCHANGED <<p, other, boot, resp, w, copied, closed, backend, timedOut>>

\* proxy.go 82-85
BuildHeaders ==
    /\ pc = "built"
    /\ proxyReq' \in {addForwardedHeaders(r, d) : d \in copyHeaders(p.config, r, proxyReq)}
    /\ logs' = Append(logs, <<"request line", "">>)
    /\ pc' = "ready"
    /\ UNCHANGED <<p, other, boot, r, resp, w, copied, closed, backend, timedOut>>

\* proxy.go 87: Do hands the request to the transport
Do ==
    /\ pc = "ready"
    /\ backend' = Append(backend, proxyReq)
    /\ pc' = "dispatched"
    /\ UNCHANGED <<p, other, boot, r, proxyReq, resp, w, copied, closed, logs, timedOut>>

\* the deadline http.Client sets from its Timeout, when that is positive,
\* passes while ServeHTTP is blocked in Do or in io.Copy
TimerFires ==
    /\ pc \in {"dispatched", "statusWritten"}
    /\ p.httpClient.Timeout > 0
    /\ ~timedOut
    /\ timedOut' = TRUE
    /\ UNCHANGED <<p, other, boot, pc, r, proxyReq, resp, w, copied, closed, logs, backend>>

\* mutant: the status of the construction failure used for the dispatch failure
DoFailedAs500(cause) ==
    /\ logs' = Append(logs, <<"Error proxying request", cause>>)
    /\ w' = httpError(w, "Failed to proxy request", StatusInternalServerError)
    /\ pc' = "done"
    /\ UNCHANGED <<p, other, boot, r, proxyReq, resp, copied, closed, backend, timedOut>>

\* proxy.go 88-92
DoFailed(cause) ==
    /\ logs' = Append(logs, <<"Error proxying request", cause>>)
    /\ w' = httpError(w, "Failed to proxy request", StatusBadGateway)
    /\ pc' = "done"
    /\ UNCHANGED <<p, other, boot, r, proxyReq, resp, copied, closed, backend, timedOut>>

\* Do returns an error because the deadline passed before a response came
DoTimeout ==
    /\ pc = "dispatched"
    /\ timedOut
    /\ DoFailed("timeout")

\* Do returns an error for another reason: DNS, connect, TLS, reset, or a
\* failing read of the inbound body
DoError ==
    /\ pc = "dispatched"
    /\ ~timedOut
    /\ DoFailed(IF r.BodyErr THEN "read error" ELSE "transport")

\* the backend answers in time; a 3xx answer is handed back as it is when
\* CheckRedirect returns ErrUseLastResponse and followed otherwise
DoResponse(answer) ==
    /\ pc = "dispatched"
    /\ ~timedOut
    /\ ~r.BodyErr
    /\ IF answer.StatusCode \in {301, 302, 303, 307, 308}
          /\ sLocation \in DOMAIN answer.Header
          /\ ~p.httpClient.UseLastResponse
          /\ Len(backend) < 3
       THEN /\ backend' = Append(backend,
                     [proxyReq EXCEPT !.URL.Path = answer.Header[sLocation][1]])
            /\ UNCHANGED <<pc, resp>>
       ELSE /\ resp' = answer
            /\ pc' = "responded"
            /\ UNCHANGED backend
    /\ UNCHANGED <<p, other, boot, r, proxyReq, w, copied, closed, logs, timedOut>>

\* mutant: WriteHeader called before the headers are copied
CopyHeadersAfterStatus ==
    /\ pc = "responded"
    /\ \E order \in Orders(DOMAIN resp.Header) :
          w' = [WriteHeader(w, resp.StatusCode)
                    EXCEPT !.Header = CopyResponseHeader(@, resp.Header, order)]
    /\ pc' = "headersCopied"
    /\ UNCHANGED <<p, other, boot, r, proxyReq, resp, copied, closed, logs, backend, timedOut>>

\* proxy.go 95-99
CopyHeadersToCaller ==
    /\ pc = "responded"
    /\ \E order \in Orders(DOMAIN resp.Header) :
          w' = [w EXCEPT !.Header = CopyResponseHeader(@, resp.Header, order)]
    /\ pc' = "headersCopied"
    /\ UNCHANGED <<p, other, boot, r, proxyReq, resp, copied, closed, logs, backend, timedOut>>

\* proxy.go 101
WriteStatus ==
    /\ pc = "headersCopied"
    /\ w' = WriteHeader(w, resp.StatusCode)
    /\ pc' = "statusWritten"
    /\ UNCHANGED <<p, other, boot, r, proxyReq, resp, copied, closed, logs, backend, timedOut>>

\* proxy.go 103: io.Copy moves the next byte
CopyByte ==
    /\ pc = "statusWritten"
    /\ copied < Len(resp.Body)
    /\ w' = [w EXCEPT !.Body = Append(@, resp.Body[copied + 1])]
    /\ copied' = copied + 1
    /\ UNCHANGED <<p, other, boot, pc, r, proxyReq, resp, closed, logs, backend, timedOut>>

\* proxy.go 103-106, 93: io.Copy reaches the end of the body; the deferred
\* Close runs as ServeHTTP returns
CopyDone ==
    /\ pc = "statusWritten"
    /\ copied = Len(resp.Body)
    /\ closed' = TRUE
    /\ pc' = "done"
    /\ UNCHANGED <<p, other, boot, r, proxyReq, resp, w, copied, logs, backend, timedOut>>

\* mutant: the response body left open when the copy fails
CopyErrorLeavesOpen ==
    /\ pc = "statusWritten"
    /\ logs' = Append(logs, <<"Error copying response body",
                              IF timedOut THEN "timeout" ELSE "io">>)
    /\ pc' = "done"
    /\ UNCHANGED <<p, other, boot, r, proxyReq, resp, w, copied, closed, backend, timedOut>>

\* mutant: a failed copy answered with 502, like a failed dispatch
CopyErrorAs502 ==
    /\ pc = "statusWritten"
    /\ logs' = Append(logs, <<"Error copying response body",
                              IF timedOut THEN "timeout" ELSE "io">>)
    /\ w' = httpError(w, "Failed to proxy request", StatusBadGateway)
    /\ closed' = TRUE
    /\ pc' = "done"
    /\ UNCHANGED <<p, other, boot, r, proxyReq, resp, copied, backend, timedOut>>

\* proxy.go 103-106, 93: io.Copy fails, on a read from the backend (reset, or
\* the deadline passed) or on a write to the caller (disconnected)
CopyError ==
    /\ pc = "statusWritten"
    /\ logs' = Append(logs, <<"Error copying response body",
                              IF timedOut THEN "timeout" ELSE "io">>)
    /\ closed' = TRUE
    /\ pc' = "done"
    /\ UNCHANGED <<p, other, boot, r, proxyReq, resp, w, copied, backend, timedOut>>

Next ==
    \/ \E req \in Requests : Receive(req)
    \/ BuildRequest
    \/ BuildHeaders
    \/ Do
    \/ TimerFires
    \/ DoTimeout
    \/ DoError
    \/ \E answer \in ResponsesFor(r) : DoResponse(answer)
    \/ CopyHeadersToCaller
    \/ WriteStatus
    \/ CopyByte
    \/ CopyDone
    \/ CopyError
    \/ Return

Spec == Init /\ [][Next]_vars

\* The timer armed with http.Client.Timeout fires, and a Do whose deadline has
\* passed returns; nothing is assumed of the backend, of the caller or of the
\* arrival of requests
FairSpec ==
    /\ Spec
    /\ WF_vars(TimerFires)
    /\ WF_vars(DoTimeout)

(***************************************************************************)
(* Concurrent requests.  http.Server runs ServeHTTP in a goroutine of its   *)
(* own for every connection.  All that ServeHTTP assigns is local to the    *)
(* call: proxyReq, resp, the writer and the request it was handed.  The     *)
(* Proxy is shared by the goroutines and only read.  One goroutine runs     *)
(* and a second one is parked; the scheduler may exchange them between any  *)
(* two steps.                                                               *)
(***************************************************************************)
\* the locals of the running goroutine
Slot ==
    [pc |-> pc, r |-> r, proxyReq |-> proxyReq, resp |-> resp, w |-> w,
     copied |-> copied, closed |-> closed, logs |-> logs, backend |-> backend,
     timedOut |-> timedOut]

\* mutant: one ResponseWriter shared by the two goroutines
SwitchSharedWriter ==
    /\ pc' = other.pc
    /\ r' = other.r
    /\ proxyReq' = other.proxyReq
    /\ resp' = other.resp
    /\ w' = w
    /\ copied' = other.copied
    /\ closed' = other.closed
    /\ logs' = other.logs
    /\ backend' = other.backend
    /\ timedOut' = other.timedOut
    /\ other' = Slot
    /\ UNCHANGED <<p, boot>>

\* the scheduler parks the running goroutine and resumes the parked one
Switch ==
    /\ pc' = other.pc
    /\ r' = other.r
    /\ proxyReq' = other.proxyReq
    /\ resp' = other.resp
    /\ w' = other.w
    /\ copied' = other.copied
    /\ closed' = other.closed
    /\ logs' = other.logs
    /\ backend' = other.backend
    /\ timedOut' = other.timedOut
    /\ other' = Slot
    /\ UNCHANGED <<p, boot>>

\* the requests of the concurrent runs: one that is answered, one whose
\* method http.NewRequest refuses, one whose body cannot be read, one with a
\* body
ConcRequests ==
    {BaseRequest,
     [BaseRequest EXCEPT !.Method = <<"\n">>],
     [BaseRequest EXCEPT !.Method = <<"P","O","S","T">>, !.Body = <<"a","b">>,
                         !.BodyErr = TRUE],
     [BaseRequest EXCEPT !.Method = <<"P","O","S","T">>, !.Body = <<"a","b">>],
     [BaseRequest EXCEPT !.Header = nVia :> <<vB, vA>>]}
\* the configurations of the concurrent runs: the base one, and one with a
\* base path and two overrides
ConcConfigs ==
    {BaseConfig,
     [BaseConfig EXCEPT !.TargetURL = [BaseURL EXCEPT !.Path = <<"/","p","/">>],
                        !.CustomHeaders = (sHost :> vO) @@ (nVia :> vO)]}
ConcResponses ==
    {BaseResponse,
     [BaseResponse EXCEPT !.StatusCode = 404],
     [BaseResponse EXCEPT !.Header = sSetCookie :> <<vA, vB>>]}
ConcResponsesFor(req) == ResponsesFor(req) \cap ConcResponses

ConcInit ==
    /\ p \in {NewProxy(c, Nil).proxy : c \in ConcConfigs}
    /\ pc = "idle"
    /\ r = Nil
    /\ proxyReq = Nil
    /\ resp = Nil
    /\ w = NewWriter
    /\ copied = 0
    /\ closed = FALSE
    /\ logs = <<>>
    /\ backend = <<>>
    /\ timedOut = FALSE
    /\ other = IdleSlot
    /\ boot = Nil

ConcNext ==
    \/ \E req \in ConcRequests : Receive(req)
    \/ BuildRequest
    \/ BuildHeaders
    \/ Do
    \/ TimerFires
    \/ DoTimeout
    \/ DoError
    \/ \E answer \in ConcResponsesFor(r) : DoResponse(answer)
    \/ CopyHeadersToCaller
    \/ WriteStatus
    \/ CopyByte
    \/ CopyDone
    \/ CopyError
    \/ Return
    \/ Switch

ConcSpec == ConcInit /\ [][ConcNext]_vars

(***************************************************************************)
(* Construction: a program that uses the package calls NewProxy with a     *)
(* configuration and a logger of its own.  boot holds what it passed and    *)
(* the error it got back; p holds the Proxy it got back.                    *)
(***************************************************************************)
Construct ==
    /\ boot.pc = "caller"
    /\ LET res == NewProxy(boot.config, boot.logger)
       IN /\ boot' = [boot EXCEPT !.pc = "constructed", !.err = res.err]
          /\ p' = res.proxy
    /\ UNCHANGED <<pc, r, proxyReq, resp, w, copied, closed, logs, backend, timedOut,
                   other>>

NewInit ==
    /\ boot \in {[pc |-> "caller", config |-> c, logger |-> l, err |-> FALSE]
                    : c \in ConfigInputs, l \in Loggers}
    /\ p = Nil
    /\ pc = "idle"
    /\ r = Nil
    /\ proxyReq = Nil
    /\ resp = Nil
    /\ w = NewWriter
    /\ copied = 0
    /\ closed = FALSE
    /\ logs = <<>>
    /\ backend = <<>>
    /\ timedOut = FALSE
    /\ other = IdleSlot

NewNext == Construct

NewSpec == NewInit /\ [][NewNext]_vars

(***************************************************************************)
(* Startup: main.go.  boot is the state of main: its position, the command  *)
(* line, the options parsed from it, what it wrote and its exit code.       *)
(***************************************************************************)
\* strings.IndexByte, counted from 1; 0 when the byte does not occur
IndexByte(s, c) ==
    IF \E i \in DOMAIN s : s[i] = c
    THEN CHOOSE i \in DOMAIN s : s[i] = c /\ \A j \in 1..(i - 1) : s[j] # c
    ELSE 0
LastIndexByte(s, c) ==
    IF \E i \in DOMAIN s : s[i] = c
    THEN CHOOSE i \in DOMAIN s : s[i] = c /\ \A j \in (i + 1)..Len(s) : s[j] # c
    ELSE 0
HasPrefix(s, t) == Len(s) >= Len(t) /\ SubSeq(s, 1, Len(t)) = t
From(s, i) == SubSeq(s, i, Len(s))

\* net/url getScheme: letters, and after the first byte digits, "+", "-" and
\* ".", up to a colon; a colon in front is an error, any other byte or the
\* end of the string means that there is no scheme
Letters == Range(LowerLetters) \cup Range(UpperLetters)
getScheme(rawURL) ==
    LET inScheme(i) == \/ rawURL[i] \in Letters
                       \/ i > 1 /\ rawURL[i] \in Digits \cup {"+", "-", "."}
        stops == {i \in DOMAIN rawURL : ~inScheme(i)}
        k == IF stops = {} THEN 0 ELSE CHOOSE i \in stops : \A j \in stops : i <= j
    IN IF k = 0 \/ rawURL[k] # ":"
       THEN [err |-> FALSE, scheme |-> <<>>, rest |-> rawURL]
       ELSE IF k = 1
       THEN [err |-> TRUE, scheme |-> <<>>, rest |-> <<>>]
       ELSE [err |-> FALSE, scheme |-> SubSeq(rawURL, 1, k - 1), rest |-> From(rawURL, k + 1)]

\* the bytes net/url leaves unescaped in a host
HostChars == Letters \cup Digits
             \cup {"-", "_", ".", "~", "!", "$", "&", "'", "(", ")", "*", "+",
                   ",", ";", "=", ":", "[", "]", "<", ">", "\""}
\* net/url parseHost, for a host that is no IP literal in brackets: what
\* follows the last colon is a port of digits, and every byte is a host byte
parseHostErr(host) ==
    LET i == LastIndexByte(host, ":")
    IN \/ i > 0 /\ \E j \in (i + 1)..Len(host) : host[j] \notin Digits
       \/ \E j \in DOMAIN host : host[j] \notin HostChars

\* the target arguments of the command lines of the model
sSep == <<":", "/", "/">>
TargetStrings ==
    {sHttp \o sSep \o sTarget,
     sHttps \o sSep \o sTarget \o <<"/", "p">>,
     <<"H", "T", "T", "P">> \o sSep \o sTarget,
     <<"f", "t", "p">> \o sSep \o sTarget,
     sTarget,
     sTarget \o <<":", "8">>,
     <<"/", "/">> \o sTarget,
     sHttp \o <<":">> \o sTarget,
     sSep \o sTarget,
     sHttp \o sSep \o sTarget \o <<":", "x">>,
     sHttp \o sSep \o sTarget \o <<" ">>,
     sHttp \o sSep \o sTarget \o <<"\n">>,
     <<>>}

NoURL == [Scheme |-> <<>>, Opaque |-> <<>>, Host |-> <<>>, Path |-> <<>>, RawQuery |-> <<>>]
\* url.Parse, for strings without userinfo, percent escapes and IP literals
parse(rawURL) ==
    LET hash == IndexByte(rawURL, "#")
        u == IF hash > 0 THEN SubSeq(rawURL, 1, hash - 1) ELSE rawURL
        sch == getScheme(u)
        qm == IndexByte(sch.rest, "?")
        rest == IF qm > 0 THEN SubSeq(sch.rest, 1, qm - 1) ELSE sch.rest
        query == IF qm > 0 THEN From(sch.rest, qm + 1) ELSE <<>>
        scheme == [i \in DOMAIN sch.scheme |-> ToLower(sch.scheme[i])]
        slash == IndexByte(rest, "/")
        segment == IF slash > 0 THEN SubSeq(rest, 1, slash - 1) ELSE rest
        afterSlashes == From(rest, 3)
        cut == IndexByte(afterSlashes, "/")
        authority == IF cut > 0 THEN SubSeq(afterSlashes, 1, cut - 1) ELSE afterSlashes
        path == IF cut > 0 THEN From(afterSlashes, cut) ELSE <<>>
        fail == [err |-> TRUE, url |-> Nil]
    IN IF \E i \in DOMAIN u : u[i] \in CtlChars THEN fail
       ELSE IF sch.err THEN fail
       ELSE IF ~HasPrefix(rest, <<"/">>) /\ scheme # <<>>
       THEN [err |-> FALSE,
             url |-> [NoURL EXCEPT !.Scheme = scheme, !.Opaque = rest, !.RawQuery = query]]
       ELSE IF ~HasPrefix(rest, <<"/">>) /\ IndexByte(segment, ":") > 0 THEN fail
       ELSE IF HasPrefix(rest, <<"/", "/">>)
               /\ (scheme # <<>> \/ ~HasPrefix(rest, <<"/", "/", "/">>))
       THEN IF parseHostErr(authority) THEN fail
            ELSE [err |-> FALSE,
                  url |-> [NoURL EXCEPT !.Scheme = scheme, !.Host = authority,
                                        !.Path = path, !.RawQuery = query]]
       ELSE [err |-> FALSE,
             url |-> [NoURL EXCEPT !.Scheme = scheme, !.Path = rest, !.RawQuery = query]]

\* url.Parse, computed once for each target of the model
ParsedOf == [u \in TargetStrings |-> parse(u)]
urlParse(rawURL) == IF rawURL \in TargetStrings THEN ParsedOf[rawURL] ELSE parse(rawURL)

\* fmt.Sprintf("%d", n) for n >= 0
DigitChars == <<"0", "1", "2", "3", "4", "5", "6", "7", "8", "9">>
RECURSIVE Itoa(_)
Itoa(n) == IF n < 10 THEN <<DigitChars[n + 1]>>
           ELSE Itoa(n \div 10) \o <<DigitChars[(n % 10) + 1]>>

\* main.go 37-76: flag.Parse leaves the process on a malformed flag (exit 2)
\* and on -h (usage, exit 0); --version prints the version and exits 0; a
\* command line without a target is an error
parseFlags(args) ==
    LET none == [exit |-> <<>>, stderr |-> <<>>, stdout |-> <<>>, err |-> "", opts |-> Nil]
    IN IF args.flags = "bad"
       THEN [none EXCEPT !.exit = <<2>>, !.stderr = << <<"flag error">>, <<"usage">> >>]
       ELSE IF args.flags = "help"
       THEN [none EXCEPT !.exit = <<0>>, !.stderr = << <<"usage">> >>]
       ELSE IF args.ShowVersion
       THEN [none EXCEPT !.exit = <<0>>, !.stdout = << <<"goreflector version">> >>]
       ELSE IF Len(args.rest) < 1
       THEN [none EXCEPT !.err = "target URL is required"]
       ELSE [none EXCEPT !.opts = [Port |-> args.Port, TargetURL |-> args.rest[1],
                                   Timeout |-> args.Timeout, Verbose |-> args.Verbose,
                                   Headers |-> args.Headers]]

\* mutant: the first value given for a name kept
RECURSIVE parseHeadersFirstWins(_)
parseHeadersFirstWins(headers) ==
    IF headers = <<>> THEN [err |-> "", result |-> EmptyHeader]
    ELSE LET n == Len(headers)
             header == headers[n]
             before == parseHeadersFirstWins(SubSeq(headers, 1, n - 1))
             colon == IndexByte(header, ":")
             name == TrimSpace(SubSeq(header, 1, colon - 1))
             value == TrimSpace(From(header, colon + 1))
         IN IF before.err # "" THEN before
            ELSE IF colon = 0
            THEN [err |-> "invalid header format (expected 'Name: Value')", result |-> Nil]
            ELSE IF name = <<>>
            THEN [err |-> "invalid header format (header name cannot be empty)", result |-> Nil]
            ELSE [err |-> "", result |-> before.result @@ (name :> value)]

\* main.go 78-93; "" stands for a nil error
RECURSIVE parseHeaders(_)
parseHeaders(headers) ==
    IF headers = <<>> THEN [err |-> "", result |-> EmptyHeader]
    ELSE LET n == Len(headers)
             header == headers[n]
             before == parseHeaders(SubSeq(headers, 1, n - 1))
             colon == IndexByte(header, ":")
             name == TrimSpace(SubSeq(header, 1, colon - 1))
             value == TrimSpace(From(header, colon + 1))
         IN IF before.err # "" THEN before
            ELSE IF colon = 0
            THEN [err |-> "invalid header format (expected 'Name: Value')", result |-> Nil]
            ELSE IF name = <<>>
            THEN [err |-> "invalid header format (header name cannot be empty)", result |-> Nil]
            ELSE [err |-> "", result |-> (name :> value) @@ before.result]

MinPort == 1
MaxPort == 65535
\* mutant: the port not checked
validateOptionsNoPort(opts) ==
    IF opts.Timeout < 1 THEN "invalid timeout"
    ELSE IF opts.TargetURL = <<>> THEN "target URL cannot be empty"
    ELSE IF urlParse(opts.TargetURL).err THEN "invalid target URL"
    ELSE ""

\* main.go 95-114; "" stands for a nil error
validateOptions(opts) ==
    IF opts.Port < MinPort \/ opts.Port > MaxPort THEN "invalid port"
    ELSE IF opts.Timeout < 1 THEN "invalid timeout"
    ELSE IF opts.TargetURL = <<>> THEN "target URL cannot be empty"
    ELSE IF urlParse(opts.TargetURL).err THEN "invalid target URL"
    ELSE ""

\* the command lines of the model
HeaderFlags ==
    {<<>>,
     << <<"A", ":", " ", "o">> >>,
     << <<"A", ":", "o">>, <<"A", ":", " ", "q", " ">> >>,
     << <<"A", ":", "o">>, <<"B", ":", "o">>, <<" ", "A", " ", ":", "q">> >>,
     << <<"A", ":", "o", ":", " ", "q">> >>,
     << <<"A", ":">> >>,
     << <<"A", "o">> >>,
     << <<" ", ":", "o">> >>,
     << <<"A", ":", "o">>, <<"B", "o">> >>,
     << <<":", "o">>, <<"A", ":", "o">> >>}
BaseArgs ==
    [flags |-> "ok", Port |-> 8080, Timeout |-> DefaultTimeout, Verbose |-> FALSE,
     ShowVersion |-> FALSE, Headers |-> <<>>, rest |-> <<sHttp \o sSep \o sTarget>>]
ArgInputs ==
    {[BaseArgs EXCEPT !.flags = f, !.Port = po, !.Timeout = t, !.ShowVersion = v,
                      !.rest = a]
        : f \in {"ok", "help", "bad"}, po \in {0, 1, 8080, 65535, 65536},
          t \in {-1, 0, 1, DefaultTimeout}, v \in BOOLEAN,
          a \in {<<>>} \cup {<<u>> : u \in TargetStrings}}
    \cup {[BaseArgs EXCEPT !.Headers = h, !.Verbose = v] : h \in HeaderFlags, v \in BOOLEAN}

\* everything but p and boot
serving == <<pc, r, proxyReq, resp, w, copied, closed, logs, backend, timedOut, other>>

\* os.Exit(code) after the lines written to standard error
Exit(b, code, lines) ==
    [b EXCEPT !.pc = "exited", !.exit = <<code>>, !.stderr = @ \o lines]

\* main.go 117-122
ParseFlags ==
    /\ boot.pc = "main"
    /\ LET res == parseFlags(boot.args)
       IN boot' =
            IF res.exit # <<>>
            THEN [Exit(boot, res.exit[1], res.stderr) EXCEPT !.stdout = @ \o res.stdout]
            ELSE IF res.err # ""
            THEN Exit(boot, 1, << <<"Error", res.err>>, <<"usage">> >>)
            ELSE [boot EXCEPT !.pc = "parsed", !.opts = res.opts]
    /\ UNCHANGED <<p, serving>>

\* mutant: the failure of validateOptions reported without the usage text
ValidateOptionsQuiet ==
    /\ boot.pc = "parsed"
    /\ LET err == validateOptions(boot.opts)
       IN boot' = IF err # ""
                  THEN Exit(boot, 1, << <<"Error", err>> >>)
                  ELSE [boot EXCEPT !.pc = "validated"]
    /\ UNCHANGED <<p, serving>>

\* main.go 124-128
ValidateOptions ==
    /\ boot.pc = "parsed"
    /\ LET err == validateOptions(boot.opts)
       IN boot' = IF err # ""
                  THEN Exit(boot, 1, << <<"Error", err>>, <<"usage">> >>)
                  ELSE [boot EXCEPT !.pc = "validated"]
    /\ UNCHANGED <<p, serving>>

\* main.go 130-134
ParseTargetURL ==
    /\ boot.pc = "validated"
    /\ LET res == urlParse(boot.opts.TargetURL)
       IN boot' = IF res.err
                  THEN Exit(boot, 1, << <<"Error parsing target URL">> >>)
                  ELSE [boot EXCEPT !.pc = "urlParsed", !.targetURL = res.url]
    /\ UNCHANGED <<p, serving>>

\* main.go 136-144
CheckScheme ==
    /\ boot.pc = "urlParsed"
    /\ boot' = IF boot.targetURL.Scheme # sHttp /\ boot.targetURL.Scheme # sHttps
               THEN Exit(boot, 1, << <<"Error", "target URL must use http or https scheme">> >>)
               ELSE [boot EXCEPT !.pc = "schemeChecked",
                                 !.logger = [out |-> IF boot.opts.Verbose THEN "stdout"
                                                     ELSE "discard"]]
    /\ UNCHANGED <<p, serving>>

\* main.go 146-150
ParseHeaders ==
    /\ boot.pc = "schemeChecked"
    /\ LET res == parseHeaders(boot.opts.Headers)
       IN boot' = IF res.err # ""
                  THEN Exit(boot, 1, << <<"Error parsing headers", res.err>> >>)
                  ELSE [boot EXCEPT !.pc = "headersParsed", !.customHeaders = res.result]
    /\ UNCHANGED <<p, serving>>

\* main.go 152-167
CreateProxy ==
    /\ boot.pc = "headersParsed"
    /\ LET config == [ListenAddr |-> <<":">> \o Itoa(boot.opts.Port),
                      TargetURL |-> boot.targetURL,
                      Timeout |-> boot.opts.Timeout,
                      CustomHeaders |-> boot.customHeaders]
           res == NewProxy(config, boot.logger)
       IN IF res.err
          THEN /\ boot' = Exit(boot, 1, << <<"Error creating proxy">> >>)
               /\ UNCHANGED p
          ELSE /\ boot' = [boot EXCEPT !.pc = "created",
                                       !.stdout = @ \o << <<"Starting goreflector">>,
                                                          <<"Listening on">>,
                                                          <<"Proxying to">> >>]
               /\ p' = res.proxy
    /\ UNCHANGED serving

\* main.go 169, proxy.go 168-179: ListenAndServe has bound the listen address
Start ==
    /\ boot.pc = "created"
    /\ boot' = [boot EXCEPT !.pc = "serving"]
    /\ UNCHANGED <<p, serving>>

\* main.go 169-172: ListenAndServe returns, at once when the address cannot
\* be bound or later when the listener fails
StartFailed ==
    /\ boot.pc \in {"created", "serving"}
    /\ boot' = Exit(boot, 1, << <<"Error starting proxy">> >>)
    /\ UNCHANGED <<p, serving>>

StartInit ==
    /\ boot \in {[pc |-> "main", args |-> a, opts |-> Nil, targetURL |-> Nil,
                  logger |-> Nil, customHeaders |-> Nil, exit |-> <<>>,
                  stderr |-> <<>>, stdout |-> <<>>] : a \in ArgInputs}
    /\ p = Nil
    /\ pc = "idle"
    /\ r = Nil
    /\ proxyReq = Nil
    /\ resp = Nil
    /\ w = NewWriter
    /\ copied = 0
    /\ closed = FALSE
    /\ logs = <<>>
    /\ backend = <<>>
    /\ timedOut = FALSE
    /\ other = IdleSlot

StartNext ==
    \/ ParseFlags
    \/ ValidateOptions
    \/ ParseTargetURL
    \/ CheckScheme
    \/ ParseHeaders
    \/ CreateProxy
    \/ Start
    \/ StartFailed

\* main runs without waiting for anything until it calls Start
StartSpec ==
    /\ StartInit
    /\ [][StartNext]_vars
    /\ WF_vars(ParseFlags \/ ValidateOptions \/ ParseTargetURL \/ CheckScheme
               \/ ParseHeaders \/ CreateProxy \/ Start)

(***************************************************************************)
(* Vocabulary of the properties.                                           *)
(***************************************************************************)
\* a name with every letter lower-cased: two names are equal case-insensitively
\* when their folds are equal
ToLowerAll(s) == [i \in DOMAIN s |-> ToLower(s[i])]
FoldOf == [s \in HeaderNames |-> ToLowerAll(s)]
CaseFold(s) == IF s \in HeaderNames THEN FoldOf[s] ELSE ToLowerAll(s)
SameName(a, b) == CaseFold(a) = CaseFold(b)
FoldedSkip == {CaseFold(h) : h \in skipHeaders}
HopByHop(name) == CaseFold(name) \in FoldedSkip
FoldedForwarded == {CaseFold(f) : f \in {sXForwardedFor, sXForwardedHost, sXForwardedProto}}
ForwardedName(name) == CaseFold(name) \in FoldedForwarded

\* the outbound request has been handed to the transport
Dispatched == backend # <<>>
\* the outbound request as dispatched
Outbound == backend[1]
Custom == p.config.CustomHeaders
\* the values the outbound request carries under a name, whatever its case
OutValues(name) ==
    IF \E k \in DOMAIN Outbound.Header : SameName(k, name)
    THEN Outbound.Header[CHOOSE k \in DOMAIN Outbound.Header : SameName(k, name)]
    ELSE <<>>
\* the override names, and the inbound names, that share a name's case fold
OverridesOf(name) == {n \in DOMAIN Custom : SameName(n, name)}
InboundOf(name) == {k \in DOMAIN r.Header : SameName(k, name)}
InScheme == IF r.TLS THEN sHttps ELSE sHttp

(***************************************************************************)
(* C1: the outbound request carries no hop-by-hop header.                  *)
(***************************************************************************)
\* C1 as stated: for every inbound header map and every set of custom
\* overrides, the dispatched outbound request holds no header whose name is,
\* case-insensitively, one of the eight hop-by-hop names.
C1_NoHopByHopAtAll ==
    Dispatched => \A k \in DOMAIN Outbound.Header : ~HopByHop(k)

\* C1 amended: a hop-by-hop header of the dispatched outbound request is never
\* one copied from the inbound request, whatever the case of the inbound name
\* and the number of its values; it is there only when a custom override names
\* it, and then it holds that override's value alone.
C1_HopByHopOnlyFromOverride ==
    Dispatched =>
        \A k \in DOMAIN Outbound.Header :
            HopByHop(k) =>
                /\ OverridesOf(k) # {}
                /\ \E n \in OverridesOf(k) : Outbound.Header[k] = <<Custom[n]>>

\* an inbound hop-by-hop header in a non-canonical spelling was dropped
C1_Witness ==
    /\ Dispatched
    /\ \E k \in DOMAIN r.Header : HopByHop(k) /\ k # CanonicalHeaderKey(k)
    /\ \E k \in DOMAIN r.Header : HopByHop(k) /\ Len(r.Header[k]) = 2
    /\ \A k \in DOMAIN Outbound.Header : ~HopByHop(k)

C3_AllOthersPreserved ==
    Dispatched =>
        \A k \in DOMAIN r.Header :
            (~HopByHop(k) /\ OverridesOf(k) = {}) => OutValues(k) = r.Header[k]

\* C3 amended: every inbound name that is not hop-by-hop, is not one of
\* X-Forwarded-For, X-Forwarded-Host, X-Forwarded-Proto, and has no override
\* carries on the outbound request exactly the inbound values in the inbound
\* order when no other inbound key shares its name up to case; two inbound
\* keys that share a name up to case are merged under the canonical name,
\* each key's values kept in order, the keys in either order.
C3_NonForwardedPreserved ==
    Dispatched =>
        \A k \in DOMAIN r.Header :
            (~HopByHop(k) /\ ~ForwardedName(k) /\ OverridesOf(k) = {}) =>
                IF InboundOf(k) = {k}
                THEN OutValues(k) = r.Header[k]
                ELSE \E j \in InboundOf(k) \ {k} :
                        \/ OutValues(k) = r.Header[k] \o r.Header[j]
                        \/ OutValues(k) = r.Header[j] \o r.Header[k]

\* two values under one inbound name reached the outbound request as two
\* values in the same order
C3_Witness ==
    /\ Dispatched
    /\ \E k \in DOMAIN r.Header :
          /\ ~HopByHop(k) /\ ~ForwardedName(k) /\ OverridesOf(k) = {}
          /\ InboundOf(k) = {k}
          /\ Len(r.Header[k]) = 2
          /\ r.Header[k][1] # r.Header[k][2]
          /\ OutValues(k) = r.Header[k]

(***************************************************************************)
(* C10: the outbound Host field.                                           *)
(***************************************************************************)
HostOverrides == OverridesOf(sHost)

\* C10: the outbound Host field is the value of a configured Host override
\* when there is one, the override name matched case-insensitively, and the
\* target URL's host otherwise; it is not taken from the inbound Host (it
\* differs from it whenever the inbound Host is not itself the configured
\* value); and a Host override puts no entry named Host in the header map.
C10_OutboundHost ==
    Dispatched =>
        /\ IF HostOverrides # {}
           THEN Outbound.Host \in {Custom[n] : n \in HostOverrides}
           ELSE Outbound.Host = p.config.TargetURL.Host
        /\ r.Host \notin ({p.config.TargetURL.Host} \cup {Custom[n] : n \in HostOverrides})
              => Outbound.Host # r.Host
        /\ \A k \in DOMAIN Outbound.Header : ~SameName(k, sHost)

\* a Host override spelled in lower case set the Host field
C10_Witness ==
    /\ Dispatched
    /\ HostOverrides = {nHostLower}
    /\ r.Host # <<>>
    /\ Outbound.Host = Custom[nHostLower]
    /\ Outbound.Host # p.config.TargetURL.Host

(***************************************************************************)
(* Outcomes of one request.                                                *)
(***************************************************************************)
Logged(msg) == \E i \in DOMAIN logs : logs[i][1] = msg
Finished == pc = "done"
\* Do returned a response / Do returned an error
GotResponse == resp # Nil
DispatchFailed == Finished /\ Dispatched /\ ~GotResponse
ErrorHeaders == {sContentType, sXContentTypeOptions}

(***************************************************************************)
(* C4: the relay of the backend's response.                                *)
(***************************************************************************)
\* C4: once the status is written the caller has the backend's status code
\* and exactly the backend's headers, every name with its values in order,
\* written once; and when the copy ends without an error the caller has the
\* backend's body byte for byte.
C4_RelayExact ==
    /\ (pc \in {"statusWritten", "done"} /\ GotResponse) =>
          /\ w.Status = resp.StatusCode
          /\ w.Sent = resp.Header
          /\ w.WriteHeaderCalls = 1
    /\ (Finished /\ GotResponse /\ ~Logged("Error copying response body")) =>
          /\ w.Body = resp.Body
          /\ closed

\* a response with a repeated header and a hop-by-hop header was relayed whole
C4_Witness ==
    /\ Finished /\ GotResponse /\ ~Logged("Error copying response body")
    /\ sConnection \in DOMAIN resp.Header
    /\ Len(resp.Header[sSetCookie]) = 2
    /\ w.Sent = resp.Header
    /\ w.Body = resp.Body /\ w.Body # <<>>

(***************************************************************************)
(* C5: a failed dispatch.                                                  *)
(***************************************************************************)
\* C5: when Do returns an error, for a timeout, a transport failure or a
\* failing read of the inbound body, the caller receives 502 with the error
\* text and nothing of a backend response, the cause is logged, and the
\* backend was sent the request once; a request whose body cannot be read
\* ends this way.
C5_DispatchFailureIs502 ==
    /\ DispatchFailed =>
          /\ w.Status = StatusBadGateway
          /\ w.WriteHeaderCalls = 1
          /\ DOMAIN w.Sent = ErrorHeaders
          /\ w.Body = <<"Failed to proxy request">>
          /\ \E i \in DOMAIN logs :
                /\ logs[i][1] = "Error proxying request"
                /\ logs[i][2] \in {"timeout", "transport", "read error"}
          /\ Len(backend) = 1
    /\ (Finished /\ Dispatched /\ r.BodyErr) => ~GotResponse

\* a request whose body fails to read ended in 502
C5_Witness ==
    /\ DispatchFailed
    /\ r.BodyErr
    /\ w.Status = StatusBadGateway
    /\ logs[Len(logs)] = <<"Error proxying request", "read error">>

(***************************************************************************)
(* C6: a failed construction of the outbound request.                      *)
(***************************************************************************)
\* C6: when http.NewRequest refuses the inbound method or the target URL,
\* nothing is dispatched for that request, and it ends with 500 and the error
\* text to the caller and the cause in the log.
C6_ConstructionFailureIs500 ==
    (pc # "idle" /\ NewRequestErr(r.Method, buildTargetURL(p.config, r))) =>
        /\ ~Dispatched
        /\ pc \in {"received", "done"}
        /\ Finished =>
              /\ w.Status = StatusInternalServerError
              /\ w.WriteHeaderCalls = 1
              /\ w.Body = <<"Failed to create proxy request">>
              /\ Logged("Error creating proxy request")

\* a method holding a control byte ended in 500 with nothing dispatched
C6_Witness ==
    /\ Finished
    /\ \E i \in DOMAIN r.Method : r.Method[i] \in CtlChars
    /\ w.Status = StatusInternalServerError
    /\ ~Dispatched

(***************************************************************************)
(* C7: the timeout before a response.                                      *)
(***************************************************************************)
\* C7: when the configured timeout elapses before the backend has answered,
\* Do is aborted and the caller receives 502; a request waiting for the
\* backend under a positive configured timeout does not wait for ever.
C7_TimeoutEndsIn502 ==
    /\ []((Finished /\ Dispatched /\ timedOut /\ ~GotResponse) => w.Status = StatusBadGateway)
    /\ ((pc = "dispatched" /\ timedOut) ~> (Finished /\ w.Status = StatusBadGateway))
    /\ ((pc = "dispatched" /\ p.config.Timeout > 0) ~> (pc # "dispatched"))

\* the timer fired while Do was waiting and the request ended in 502
C7_Witness ==
    /\ DispatchFailed
    /\ timedOut
    /\ w.Status = StatusBadGateway
    /\ logs[Len(logs)] = <<"Error proxying request", "timeout">>

(***************************************************************************)
(* C8: the timeout at the blocking points.                                 *)
(***************************************************************************)
\* C8 as stated: a request during which the timeout elapsed, in Do or in the
\* body copy, ends with 502 to the caller.
C8_TimeoutAlways502 ==
    (Finished /\ timedOut) => w.Status = StatusBadGateway

\* C8 amended: a timeout that elapses in Do (dial, TLS handshake, sending the
\* request and its body, waiting for the response) ends with 502; a timeout
\* that elapses in the copy of the response body, after the status is
\* written, changes no status: the caller keeps the backend's status, written
\* once, and a failed copy is logged only.
C8_TimeoutIs502BeforeResponse ==
    (Finished /\ timedOut) =>
        IF GotResponse
        THEN /\ w.Status = resp.StatusCode
             /\ w.WriteHeaderCalls = 1
             /\ w.Sent = resp.Header
        ELSE /\ w.Status = StatusBadGateway
             /\ w.WriteHeaderCalls = 1

\* the timeout elapsed during the body copy, which failed and was logged,
\* and the caller kept the backend's 200
C8_Witness ==
    /\ Finished /\ timedOut /\ GotResponse
    /\ logs[Len(logs)] = <<"Error copying response body", "timeout">>
    /\ w.Status = 200
    /\ Len(w.Body) < Len(resp.Body)

(***************************************************************************)
(* C9: one linear run per request.                                         *)
(***************************************************************************)
\* C9: a request is dispatched to the backend at most once and WriteHeader is
\* called at most once; a finished request has exactly one of three
\* outcomes: 500 with nothing dispatched, 502 after one dispatch without a
\* response, or the backend's status after one dispatch; and on the relay
\* path the headers are in place before the status is written and the status
\* is written before any body byte.
C9_LinearRun ==
    /\ Len(backend) <= 1
    /\ w.WriteHeaderCalls <= 1
    /\ Finished =>
          /\ w.WriteHeaderCalls = 1
          /\ \/ (w.Status = StatusInternalServerError /\ ~Dispatched /\ ~GotResponse)
             \/ (w.Status = StatusBadGateway /\ Len(backend) = 1 /\ ~GotResponse)
             \/ (GotResponse /\ w.Status = resp.StatusCode /\ Len(backend) = 1)
    /\ pc = "responded" => (w.Status = 0 /\ w.Header = EmptyHeader /\ w.Body = <<>>)
    /\ pc = "headersCopied" => (w.Status = 0 /\ w.Header = resp.Header /\ w.Body = <<>>)
    /\ (GotResponse /\ w.Status # 0) => w.Sent = resp.Header
    /\ w.Body # <<>> => w.Status # 0

\* a relayed response: headers, then status, then two body bytes
C9_Witness ==
    /\ Finished /\ GotResponse
    /\ Len(backend) = 1
    /\ w.WriteHeaderCalls = 1
    /\ w.Status = resp.StatusCode
    /\ Len(w.Body) = 2


(***************************************************************************)
(* The forwarded-context headers.                                          *)
(***************************************************************************)
\* the requests copyHeaders can have left that addForwardedHeaders turned
\* into the dispatched request
BeforeInjection ==
    {d \in copyHeaders(p.config, r,
                       NewRequest(r.Method, buildTargetURL(p.config, r), r.Body))
        : addForwardedHeaders(r, d) = Outbound}
\* the first X-Forwarded-For value of a request, <<>> without one
FirstXFF(req) ==
    IF sXForwardedFor \in DOMAIN req.Header /\ req.Header[sXForwardedFor] # <<>>
    THEN req.Header[sXForwardedFor][1]
    ELSE <<>>
ClientIP == getClientIP(r)

\* C11: with a non-empty client IP c the dispatched request carries exactly
\* one X-Forwarded-For value: the first value V the request carried before
\* the injection, verbatim, then ", " and c, when V is not empty, and c alone
\* when the request carried none or an empty one.
C11_AppendClientIP ==
    (Dispatched /\ ClientIP # <<>>) =>
        /\ BeforeInjection # {}
        /\ \A d \in BeforeInjection :
              Outbound.Header[sXForwardedFor] =
                 << IF FirstXFF(d) # <<>>
                    THEN FirstXFF(d) \o sCommaSpace \o ClientIP
                    ELSE ClientIP >>

\* a chain with its own spacing was kept verbatim and the client IP appended
C11_Witness ==
    /\ Dispatched
    /\ \E d \in BeforeInjection : FirstXFF(d) = vChain
    /\ ClientIP = vIP1
    /\ Outbound.Header[sXForwardedFor] = << vChain \o sCommaSpace \o vIP1 >>


\* the immediate client: the host part of the peer address
PeerHost ==
    IF SplitHostPort(r.RemoteAddr).err THEN r.RemoteAddr
    ELSE SplitHostPort(r.RemoteAddr).host

\* C12: when the inbound request carries a non-empty X-Forwarded-For chain C
\* (and no override names X-Forwarded-For), the dispatched request carries
\* the single X-Forwarded-For value C, ", ", host part of the peer address.
C12_ChainThenPeer ==
    (/\ Dispatched
     /\ InboundOf(sXForwardedFor) = {sXForwardedFor}
     /\ FirstXFF(r) # <<>>
     /\ OverridesOf(sXForwardedFor) = {}
     /\ PeerHost # <<>>) =>
        Outbound.Header[sXForwardedFor] = << FirstXFF(r) \o sCommaSpace \o PeerHost >>


(***************************************************************************)
(* C13: the client IP.                                                     *)
(***************************************************************************)
\* the first value stored under a canonical key, <<>> without the key
FirstValue(h, key) == IF key \in DOMAIN h /\ h[key] # <<>> THEN h[key][1] ELSE <<>>
sXRealIPKey == CanonicalHeaderKey(sXRealIP)
\* a string ends with another
EndsWith(s, t) == Len(t) <= Len(s) /\ SubSeq(s, Len(s) - Len(t) + 1, Len(s)) = t

\* C13 as stated: the trimmed first entry of X-Forwarded-For when that header
\* is present, else the X-Real-IP value when that header is present, else
\* the peer's host.
C13_PresentHeaderWins ==
    pc # "idle" =>
        ClientIP = IF sXForwardedFor \in DOMAIN r.Header
                      THEN TrimSpace(FirstField(FirstValue(r.Header, sXForwardedFor)))
                   ELSE IF sXRealIPKey \in DOMAIN r.Header
                      THEN FirstValue(r.Header, sXRealIPKey)
                   ELSE PeerHost

\* C13 amended: the precedence is by non-empty value, not by presence.  The
\* client IP is the trimmed text before the first comma of the first
\* X-Forwarded-For value when that value is not empty; else the first
\* X-Real-IP value, verbatim, when that is not empty; else the host part of
\* the peer address, or the peer address unchanged when it does not split
\* into host and port.  A non-empty client IP ends the dispatched
\* X-Forwarded-For value.
C13_NonEmptyHeaderWins ==
    pc # "idle" =>
        /\ ClientIP = IF FirstValue(r.Header, sXForwardedFor) # <<>>
                         THEN TrimSpace(FirstField(FirstValue(r.Header, sXForwardedFor)))
                      ELSE IF FirstValue(r.Header, sXRealIPKey) # <<>>
                         THEN FirstValue(r.Header, sXRealIPKey)
                      ELSE PeerHost
        /\ (Dispatched /\ ClientIP # <<>>) =>
              EndsWith(Outbound.Header[sXForwardedFor][1], ClientIP)

\* X-Forwarded-For with its own spacing won over X-Real-IP and the peer
C13_Witness ==
    /\ Dispatched
    /\ FirstValue(r.Header, sXForwardedFor) = vChain
    /\ FirstValue(r.Header, sXRealIPKey) = vIP7
    /\ PeerHost = <<"9">>
    /\ ClientIP = vIP1
    /\ EndsWith(Outbound.Header[sXForwardedFor][1], sCommaSpace \o vIP1)


(***************************************************************************)
(* C14: X-Forwarded-Host.                                                  *)
(***************************************************************************)
\* C14 as stated: X-Forwarded-Host is the inbound Host when that is not
\* empty, and is absent when it is empty, whatever the inbound headers.
C14_HostOrAbsent ==
    Dispatched =>
        IF r.Host # <<>>
        THEN sXForwardedHost \in DOMAIN Outbound.Header
             /\ Outbound.Header[sXForwardedHost] = <<r.Host>>
        ELSE sXForwardedHost \notin DOMAIN Outbound.Header

\* C14 amended: with a non-empty inbound Host the dispatched request carries
\* exactly that Host, verbatim, as its one X-Forwarded-Host value.  With an
\* empty inbound Host the proxy sets no X-Forwarded-Host: the header is what
\* copyHeaders left, that is the value of an override of that name when one
\* is configured, else the values the inbound request carried under that
\* name, and absent when there are neither.
C14_HostOrWhatWasCopied ==
    Dispatched =>
        IF r.Host # <<>>
        THEN sXForwardedHost \in DOMAIN Outbound.Header
             /\ Outbound.Header[sXForwardedHost] = <<r.Host>>
        ELSE IF OverridesOf(sXForwardedHost) # {}
             THEN \E n \in OverridesOf(sXForwardedHost) :
                     OutValues(sXForwardedHost) = <<Custom[n]>>
        ELSE IF InboundOf(sXForwardedHost) = {}
             THEN sXForwardedHost \notin DOMAIN Outbound.Header
        ELSE \E k \in InboundOf(sXForwardedHost) :
                /\ InboundOf(sXForwardedHost) = {k}
                /\ Outbound.Header[sXForwardedHost] = r.Header[k]

\* an inbound X-Forwarded-Host went through with an empty inbound Host
C14_Witness ==
    /\ Dispatched
    /\ r.Host = <<>>
    /\ sXForwardedHost \in DOMAIN r.Header
    /\ Outbound.Header[sXForwardedHost] = r.Header[sXForwardedHost]


(***************************************************************************)
(* C15: X-Forwarded-Proto.                                                 *)
(***************************************************************************)
\* C15: the dispatched request carries exactly one X-Forwarded-Proto value,
\* https when the inbound connection was TLS and http otherwise, whatever
\* X-Forwarded-Proto the inbound request or an override carried.
C15_ProtoFromConnection ==
    Dispatched =>
        /\ \A k \in DOMAIN Outbound.Header :
              SameName(k, sXForwardedProto) => k = sXForwardedProto
        /\ sXForwardedProto \in DOMAIN Outbound.Header
        /\ Outbound.Header[sXForwardedProto] = << IF r.TLS THEN sHttps ELSE sHttp >>

\* a TLS request that carried its own X-Forwarded-Proto went out with https
C15_Witness ==
    /\ Dispatched
    /\ r.TLS
    /\ sXForwardedProto \in DOMAIN r.Header
    /\ r.Header[sXForwardedProto] # <<sHttps>>
    /\ Outbound.Header[sXForwardedProto] = <<sHttps>>


(***************************************************************************)
(* C16: the target URL.                                                    *)
(***************************************************************************)
BasePath == p.config.TargetURL.Path
\* C16: the URL of the outbound request has the scheme and the host of the
\* target base and the inbound raw query unchanged; its path is the inbound
\* path when the base path is empty or "/", and otherwise the base path
\* without one trailing "/" followed by the inbound path.
C16_TargetURL ==
    (pc \notin {"idle", "received"} /\ proxyReq # Nil) =>
        /\ proxyReq.URL.Scheme = p.config.TargetURL.Scheme
        /\ proxyReq.URL.Host = p.config.TargetURL.Host
        /\ proxyReq.URL.RawQuery = r.URL.RawQuery
        /\ proxyReq.URL.Path =
              IF BasePath = <<>> \/ BasePath = <<"/">> THEN r.URL.Path
              ELSE IF BasePath[Len(BasePath)] = "/"
                   THEN SubSeq(BasePath, 1, Len(BasePath) - 1) \o r.URL.Path
                   ELSE BasePath \o r.URL.Path
        /\ Dispatched => Outbound.URL = proxyReq.URL

\* base /p/ and inbound /x?a=1 were dispatched as /p/x?a=1 on the https target
C16_Witness ==
    /\ Dispatched
    /\ BasePath = <<"/","p","/">>
    /\ p.config.TargetURL.Scheme = sHttps
    /\ r.URL.Path = <<"/","x">>
    /\ Outbound.URL.Path = <<"/","p","/","x">>
    /\ Outbound.URL.RawQuery = <<"a","=","1">>
    /\ Outbound.URL.Scheme = sHttps


RedirectCodes == {301, 302, 303, 307, 308}
\* C18: the client follows no redirect: one inbound request puts at most one
\* request on the wire, and a 3xx answer of the backend is the response that
\* is relayed, with its status and its Location header unchanged.
C18_RedirectRelayed ==
    /\ Len(backend) <= 1
    /\ (GotResponse /\ resp.StatusCode \in RedirectCodes
          /\ pc \in {"statusWritten", "done"}) =>
          /\ w.Status = resp.StatusCode
          /\ sLocation \in DOMAIN resp.Header =>
                (sLocation \in DOMAIN w.Sent /\ w.Sent[sLocation] = resp.Header[sLocation])

\* a 302 with a Location header reached the caller after one backend request
C18_Witness ==
    /\ Finished
    /\ w.Status = 302
    /\ sLocation \in DOMAIN w.Sent
    /\ w.Sent[sLocation] = << <<"/","t">> >>
    /\ Len(backend) = 1

(***************************************************************************)
(* C19: requests handled concurrently.                                     *)
(***************************************************************************)
\* the response a request ends with when it is the only one in flight: 500
\* and the error text when http.NewRequest refuses it, 502 and the error
\* text when Do returns no response, and otherwise the status and headers of
\* the response its own dispatch was answered with and what io.Copy moved of
\* that response's body, all of it unless the copy failed
AloneOutcome(s) ==
    IF NewRequestErr(s.r.Method, buildTargetURL(p.config, s.r))
    THEN /\ s.w = httpError(NewWriter, "Failed to create proxy request",
                            StatusInternalServerError)
         /\ s.backend = <<>>
    ELSE /\ Len(s.backend) = 1
         /\ s.backend[1].Method = NewRequest(s.r.Method, buildTargetURL(p.config, s.r), s.r.Body).Method
         /\ s.backend[1].URL = buildTargetURL(p.config, s.r)
         /\ s.backend[1].Body = s.r.Body
         /\ IF s.resp = Nil
            THEN s.w = httpError(NewWriter, "Failed to proxy request", StatusBadGateway)
            ELSE /\ s.resp \in ConcResponsesFor(s.r)
                 /\ s.w.Status = s.resp.StatusCode
                 /\ s.w.Sent = s.resp.Header
                 /\ s.w.WriteHeaderCalls = 1
                 /\ s.w.Body = SubSeq(s.resp.Body, 1, s.copied)
                 /\ (\A i \in DOMAIN s.logs : s.logs[i][1] # "Error copying response body")
                        => s.w.Body = s.resp.Body

\* the request of a goroutine ended in a failure of its own
FailedSlot(s) ==
    /\ s.pc = "done"
    /\ \E i \in DOMAIN s.logs :
          s.logs[i][1] \in {"Error creating proxy request", "Error proxying request",
                            "Error copying response body"}

\* C19: with two requests in flight in one Proxy under any interleaving, each
\* request ends with the outcome it has when handled alone, whatever the
\* other one ends with; a step of one request changes nothing of the other
\* request, and no step changes the shared Proxy.
C19_Independent ==
    /\ [](/\ Slot.pc = "done" => AloneOutcome(Slot)
          /\ other.pc = "done" => AloneOutcome(other))
    /\ [][\/ other' = other
          \/ other' = Slot /\ Slot' = other]_vars
    /\ [][p' = p]_vars

\* two requests were in flight together: one ended in a dispatch failure, and
\* the other one has the whole of its backend's answer
C19_Witness ==
    /\ FailedSlot(Slot)
    /\ w.Status = StatusBadGateway
    /\ other.pc = "done"
    /\ ~FailedSlot(other)
    /\ other.resp # Nil
    /\ other.w.Status = other.resp.StatusCode
    /\ other.w.Body = other.resp.Body
    /\ other.r # r

(***************************************************************************)
(* C20: configurations that must not start a listener.                     *)
(***************************************************************************)
Args == boot.args
TargetGiven == Len(Args.rest) >= 1
BadPort == Args.Port < 1 \/ Args.Port > 65535
BadTimeout == Args.Timeout < 1
EmptyTarget == TargetGiven /\ Args.rest[1] = <<>>
Unparseable == TargetGiven /\ urlParse(Args.rest[1]).err
BadScheme ==
    /\ TargetGiven
    /\ ~urlParse(Args.rest[1]).err
    /\ urlParse(Args.rest[1]).url.Scheme \notin {sHttp, sHttps}
BadConfiguration == BadPort \/ BadTimeout \/ EmptyTarget \/ Unparseable \/ BadScheme
Exited == boot.pc = "exited"
\* -h or --version on the command line: main prints and leaves before it
\* looks at the options
QueryOnly == Args.flags = "help" \/ (Args.flags = "ok" /\ Args.ShowVersion)
\* NewProxy has returned a Proxy, or Start has been called
StartReached ==
    \/ boot.pc \in {"created", "serving"}
    \/ p # Nil
    \/ \E i \in DOMAIN boot.stderr : boot.stderr[i] = <<"Error starting proxy">>

\* C20 as stated: with a port outside 1..65535, a timeout below 1, an empty
\* target, an unparseable target or a scheme other than http and https, the
\* startup never reaches Start and ends with a non-zero exit.
C20_BadConfigurationExitsNonZero ==
    /\ [](BadConfiguration => ~StartReached)
    /\ BadConfiguration ~> (Exited /\ boot.exit # <<0>>)

\* C20: with such a configuration the startup builds no Proxy, never reaches
\* Start, and ends: with exit code 0 when -h or --version is on the command
\* line, and with a non-zero exit code otherwise.
C20_BadConfigurationNeverStarts ==
    /\ [](BadConfiguration => ~StartReached)
    /\ BadConfiguration ~> Exited
    /\ []((BadConfiguration /\ Exited) =>
            IF QueryOnly THEN boot.exit = <<0>> ELSE boot.exit \in {<<1>>, <<2>>})

\* a target with the scheme ftp passed validateOptions and was refused by the
\* scheme check of main
C20_Witness ==
    /\ Exited
    /\ BadScheme /\ ~BadPort /\ ~BadTimeout /\ ~EmptyTarget
    /\ boot.opts # Nil
    /\ boot.targetURL # Nil
    /\ boot.exit = <<1>>
    /\ p = Nil

(***************************************************************************)
(* C21: what a refused configuration leaves on standard error.             *)
(***************************************************************************)
MissingTarget == ~TargetGiven
MalformedHeader == parseHeaders(Args.Headers).err # ""
ErrorLines == {"Error", "Error parsing target URL", "Error parsing headers",
               "Error creating proxy"}
\* main got as far as looking at the options: flag.Parse accepted the command
\* line and neither -h nor --version was on it
OptionsRead == Args.flags = "ok" /\ ~Args.ShowVersion
ValidationFailure ==
    /\ OptionsRead
    /\ \/ MissingTarget
       \/ BadPort \/ BadTimeout \/ EmptyTarget \/ Unparseable \/ BadScheme
       \/ MalformedHeader
ErrorWritten == \E i \in DOMAIN boot.stderr : boot.stderr[i][1] \in ErrorLines
UsageWritten == \E i \in DOMAIN boot.stderr : boot.stderr[i] = <<"usage">>
ErrorThenUsage ==
    \E i, j \in DOMAIN boot.stderr :
        /\ i < j
        /\ boot.stderr[i][1] \in ErrorLines
        /\ boot.stderr[j] = <<"usage">>
\* the failures that parseFlags and validateOptions report
ReportedWithUsage ==
    MissingTarget \/ BadPort \/ BadTimeout \/ EmptyTarget \/ Unparseable

\* C21 as stated: every validation failure ends in exit code 1 with the error
\* message and then the usage text on standard error.
C21_ErrorAndUsageAlways ==
    (Exited /\ ValidationFailure) =>
        /\ boot.exit = <<1>>
        /\ ErrorThenUsage

\* C21: every validation failure ends in exit code 1 with an error message on
\* standard error; the usage text follows it when the failure is a missing
\* target, a port or timeout out of range or an empty or unparseable target,
\* and is not written for a refused scheme or a malformed -H header.
C21_ErrorAlwaysUsageForOptions ==
    /\ ValidationFailure => boot.pc \in {"main", "parsed", "validated", "urlParsed",
                                         "schemeChecked", "exited"}
    /\ (Exited /\ ValidationFailure) =>
          /\ boot.exit = <<1>>
          /\ ErrorWritten
          /\ boot.stdout = <<>>
          /\ IF ReportedWithUsage THEN ErrorThenUsage ELSE ~UsageWritten

\* a malformed -H header ended the startup with an error and without the
\* usage text
C21_Witness ==
    /\ Exited
    /\ MalformedHeader
    /\ ~ReportedWithUsage /\ ~BadScheme
    /\ boot.exit = <<1>>
    /\ ErrorWritten
    /\ ~UsageWritten

(***************************************************************************)
(* C22: what NewProxy returns.                                             *)
(***************************************************************************)
Constructed == boot.pc = "constructed"
Given == boot.config

\* C22: NewProxy returns an error and no Proxy exactly when the target URL is
\* nil or the listen address is empty; the Proxy it returns otherwise holds
\* the configuration as given, but for a zero timeout that has become 30
\* seconds, the logger as given, but for a nil logger that has become the
\* default logger, and a client with the timeout of the configuration.
C22_NewProxyResult ==
    Constructed =>
        /\ boot.err <=> (Given.TargetURL = Nil \/ Given.ListenAddr = <<>>)
        /\ boot.err => p = Nil
        /\ ~boot.err =>
              /\ p # Nil
              /\ p.config.Timeout = IF Given.Timeout = 0 THEN 30 ELSE Given.Timeout
              /\ p.config.CustomHeaders = Given.CustomHeaders
              /\ p.config.TargetURL = Given.TargetURL
              /\ p.config.ListenAddr = Given.ListenAddr
              /\ p.logger = IF boot.logger = Nil THEN DefaultLogger ELSE boot.logger
              /\ p.httpClient.Timeout = p.config.Timeout

\* a configuration with a zero timeout and a nil logger was accepted
C22_Witness ==
    /\ Constructed
    /\ ~boot.err
    /\ Given.Timeout = 0
    /\ boot.logger = Nil
    /\ p.config.Timeout = 30
    /\ p.logger = DefaultLogger

(***************************************************************************)
(* C23: partial responses.                                                 *)
(***************************************************************************)
\* C23: when ServeHTTP has ended and the caller was written the status of a
\* backend response, the caller was written the whole body of that response.
C23_NoPartialResponse ==
    (Finished /\ GotResponse /\ w.Status = resp.StatusCode) => w.Body = resp.Body

(***************************************************************************)
(* C24: a failure of the body copy.                                        *)
(***************************************************************************)
CopyFailed == Logged("Error copying response body")

\* C24: the step in which the copy of the backend body fails logs the
\* failure, writes nothing to the caller, closes the backend body and ends
\* ServeHTTP; the request then holds the one status written before the copy,
\* which is the backend's, and the bytes copied before the failure, and
\* nothing is written to the caller afterwards.
C24_CopyFailureLoggedOnly ==
    /\ [][(~CopyFailed /\ CopyFailed') =>
            /\ pc = "statusWritten"
            /\ w' = w
            /\ copied' = copied
            /\ closed'
            /\ pc' = "done"]_vars
    /\ [](CopyFailed =>
            /\ Finished
            /\ closed
            /\ w.WriteHeaderCalls = 1
            /\ w.Status = resp.StatusCode
            /\ w.Sent = resp.Header
            /\ w.Body = SubSeq(resp.Body, 1, copied))
    /\ [][(Finished /\ CopyFailed) => (w' = w \/ pc' = "idle")]_vars

\* the copy failed, without a timeout, after one byte of a two-byte body
C24_Witness ==
    /\ CopyFailed
    /\ ~timedOut
    /\ Len(resp.Body) = 2
    /\ w.Body = <<resp.Body[1]>>
    /\ w.Status = 200
    /\ closed

(***************************************************************************)
(* C25: X-Forwarded-For without a client IP.                               *)
(***************************************************************************)
\* C25 as stated: with an empty client IP the dispatched request carries no
\* X-Forwarded-For header.
C25_EmptyIPNoHeader ==
    (Dispatched /\ ClientIP = <<>>) => sXForwardedFor \notin DOMAIN Outbound.Header

\* C25: with an empty client IP the injection leaves X-Forwarded-For as the
\* header copy and the overrides made it: the dispatched request carries the
\* header exactly when the request carried it before the injection, with the
\* same values, and carries none when neither the inbound request nor an
\* override names it.
C25_EmptyIPLeavesCopied ==
    (Dispatched /\ ClientIP = <<>>) =>
        /\ BeforeInjection # {}
        /\ \A d \in BeforeInjection :
              /\ sXForwardedFor \in DOMAIN Outbound.Header
                    <=> sXForwardedFor \in DOMAIN d.Header
              /\ sXForwardedFor \in DOMAIN d.Header =>
                    Outbound.Header[sXForwardedFor] = d.Header[sXForwardedFor]
        /\ (InboundOf(sXForwardedFor) = {} /\ OverridesOf(sXForwardedFor) = {}) =>
              sXForwardedFor \notin DOMAIN Outbound.Header
        /\ (InboundOf(sXForwardedFor) # {} \/ OverridesOf(sXForwardedFor) # {}) =>
              sXForwardedFor \in DOMAIN Outbound.Header

\* a chain with a blank first field came from a peer with an address: no
\* client IP was derived and the chain went out as it came
C25_Witness ==
    /\ Dispatched
    /\ ClientIP = <<>>
    /\ PeerHost # <<>>
    /\ FirstXFF(r) = vBlankFirst
    /\ Outbound.Header[sXForwardedFor] = <<vBlankFirst>>

(***************************************************************************)
(* C26: the bytes of the path and of the query.                            *)
(***************************************************************************)
\* the path bytes the caller sent, and the path bytes the backend is sent
InboundWirePath == EscapedPath(r.URL)
OutboundWirePath == escape(Outbound.URL.Path)

\* C26: the backend is sent the path bytes the caller sent, behind the base
\* path when there is one, and the query bytes the caller sent.
C26_BytesPassThrough ==
    Dispatched =>
        /\ OutboundWirePath =
              (IF BasePath = <<>> \/ BasePath = <<"/">> THEN <<>>
               ELSE TrimSuffixSlash(BasePath)) \o InboundWirePath
        /\ Outbound.URL.RawQuery = r.URL.RawQuery

(***************************************************************************)
(* C27: the -H specifications.                                             *)
(***************************************************************************)
Specs == Args.Headers
\* the name and the value of a specification: what stands before and behind
\* its first colon, without the white space around it
ColonAt(h) == CHOOSE i \in DOMAIN h : h[i] = ":" /\ \A j \in 1..(i - 1) : h[j] # ":"
NameIn(h) == TrimSpace(SubSeq(h, 1, ColonAt(h) - 1))
ValueIn(h) == TrimSpace(SubSeq(h, ColonAt(h) + 1, Len(h)))
WellFormed(h) == (\E i \in DOMAIN h : h[i] = ":") /\ NameIn(h) # <<>>
\* main has the result of parseHeaders: the map, or the error
HeadersParsed ==
    \/ boot.pc \in {"headersParsed", "created", "serving"}
    \/ \E i \in DOMAIN boot.stderr :
          boot.stderr[i][1] \in {"Error creating proxy", "Error starting proxy"}
HeadersRefused ==
    \E i \in DOMAIN boot.stderr : boot.stderr[i][1] = "Error parsing headers"

\* C27: when every specification has a colon and a name, parseHeaders returns
\* a map whose names are the trimmed texts before the first colons and in
\* which each name has the trimmed text behind the first colon of the last
\* specification of that name; when one specification has no colon or an
\* empty name it returns an error and no map.
C27_ParseHeaders ==
    /\ HeadersParsed =>
          /\ \A i \in DOMAIN Specs : WellFormed(Specs[i])
          /\ DOMAIN boot.customHeaders = {NameIn(Specs[i]) : i \in DOMAIN Specs}
          /\ \A i \in DOMAIN Specs :
                (\A j \in (i + 1)..Len(Specs) : NameIn(Specs[j]) # NameIn(Specs[i]))
                    => boot.customHeaders[NameIn(Specs[i])] = ValueIn(Specs[i])
    /\ HeadersRefused =>
          /\ \E i \in DOMAIN Specs : ~WellFormed(Specs[i])
          /\ boot.customHeaders = Nil
          /\ Exited
    /\ (boot.pc = "exited" /\ boot.logger # Nil) => (HeadersParsed \/ HeadersRefused)

\* three specifications, two of them for one name: the last one's value was
\* kept, without the white space around name and value
C27_Witness ==
    /\ HeadersParsed
    /\ Len(Specs) = 3
    /\ NameIn(Specs[1]) = NameIn(Specs[3])
    /\ ValueIn(Specs[1]) # ValueIn(Specs[3])
    /\ Specs[3] # NameIn(Specs[3]) \o <<":">> \o ValueIn(Specs[3])
    /\ boot.customHeaders[NameIn(Specs[1])] = ValueIn(Specs[3])

(***************************************************************************)
(* C28: the order in which the maps are ranged over.                       *)
(***************************************************************************)
\* the outbound requests that the runs of copyHeaders and addForwardedHeaders
\* can give for the request in hand, one for each order of the two maps
PossibleOutbound ==
    {addForwardedHeaders(r, d)
        : d \in copyHeaders(p.config, r,
                            NewRequest(r.Method, buildTargetURL(p.config, r), r.Body))}
\* the header names of the inbound request are in canonical form, as the
\* listener stores them
CanonicalInbound == \A k \in DOMAIN r.Header : CanonicalHeaderKey(k) = k

\* C28: for an inbound request as the listener delivers it and any set of
\* overrides, every order of ranging over the maps gives the Host and the
\* headers of the request that was dispatched.
C28_SameOnEveryRun ==
    (Dispatched /\ CanonicalInbound) =>
        \A d \in PossibleOutbound :
            /\ d.Host = Outbound.Host
            /\ d.Header = Outbound.Header

(***************************************************************************)
(* C29: what ServeHTTP leaves alone.                                       *)
(***************************************************************************)
\* what the claim names of an inbound request
Named(req) ==
    IF req = Nil THEN Nil
    ELSE [Method |-> req.Method, Path |-> req.URL.Path, RawQuery |-> req.URL.RawQuery,
          Host |-> req.Host, Header |-> req.Header]

\* C29: with two requests in flight in any interleaving, no step changes the
\* Proxy, so that its configuration stays the one NewProxy returned, and the
\* method, path, query, Host and headers of an inbound request stay as they
\* were received until ServeHTTP returns for it.
C29_ConfigAndInboundUnchanged ==
    /\ [][p' = p]_vars
    /\ [](p.config \in ConcConfigs)
    /\ [][\/ Named(r') = Named(r) /\ Named(other'.r) = Named(other.r)
          \/ Named(r') = Named(other.r) /\ Named(other'.r) = Named(r)
          \/ pc = "idle" /\ pc' = "received" /\ other' = other
          \/ pc = "done" /\ pc' = "idle" /\ other' = other]_vars

\* two requests were in flight in a Proxy with overrides; the one in hand came
\* with a header, went out with others, and is as it was received
C29_Witness ==
    /\ Finished
    /\ other.pc = "done"
    /\ Custom # EmptyHeader
    /\ Dispatched
    /\ r.Header = nVia :> <<vB, vA>>
    /\ Outbound.Header # r.Header
    /\ Outbound.Host # r.Host

(***************************************************************************)
(* C30: the timeout of a constructed Proxy.                                *)
(***************************************************************************)
\* C30: every Proxy NewProxy returns without an error has a timeout above
\* zero, in its configuration and in its client, whatever the timeout given.
C30_TimeoutPositive ==
    (Constructed /\ ~boot.err) =>
        /\ p.config.Timeout > 0
        /\ p.httpClient.Timeout > 0

====
